---- MODULE Spec2Model ----
(***************************************************************************)
(* A model of keep_a_changelog_file: the error-resilient changelog parser  *)
(* (src/src/parser.rs), its diagnostics pass, and Changelog::from_str      *)
(* (src/src/changelog.rs).                                                 *)
(*                                                                         *)
(* The markdown parser, the markdown printer, semver, chrono and uriparse  *)
(* are external.  A document is the sequence of its top-level markdown     *)
(* nodes; a node carries its type, its heading depth and its text, and the *)
(* regular expressions and value parsers of the program are modelled by    *)
(* what they decide on a fixed set of sample texts.                        *)
(***************************************************************************)
EXTENDS Integers, Sequences, FiniteSets, TLC

VARIABLES nodes, doc_length, pos, fuel, events, panic, pc, marks,
          tree, diagnostics, from_str_result, changelog, call, calls

vars == <<nodes, doc_length, pos, fuel, events, panic, pc, marks,
          tree, diagnostics, from_str_result, changelog, call, calls>>

(***************************************************************************)
(* Bounds of the model.                                                    *)
(***************************************************************************)
\* longest document made of arbitrary sample nodes
MaxAny == 2
\* longest body (nodes after the four leading sections) of a document
\* whose leading sections are all present and correct
MaxBody == 3
\* longest body of a document whose leading sections vary
MaxTail == 1
\* longest document whose text does not end with a line break
MaxUnterminated == 1
\* longest document of the parser under any grammar
MaxUnitNodes == 2
\* most events of the parser under any grammar
MaxEvents == 8
\* most change items of the unreleased section
MaxItems == 3
\* most calls made on a changelog
MaxCalls == 3

(***************************************************************************)
(* Program constants.                                                      *)
(***************************************************************************)
CHANGELOG_TITLE == "Changelog"

NOTABLE_CHANGES_TEXT ==
    "All notable changes to this project will be documented in this file."

ABOUT_FORMAT_TEXT ==
    "The format is based on [Keep a Changelog](https://keepachangelog.com/en/1.1.0/),\nand this project adheres to [Semantic Versioning](https://semver.org/spec/v2.0.0.html)."

\* the same markdown with the line break replaced by a blank
ABOUT_FORMAT_ONE_LINE ==
    "The format is based on [Keep a Changelog](https://keepachangelog.com/en/1.1.0/), and this project adheres to [Semantic Versioning](https://semver.org/spec/v2.0.0.html)."

UNRELEASED_HEADER_TEXT == "Unreleased"

FuelInit == 256

\* the messages of the diagnostics that do not quote the document
MISSING_TITLE ==
    "The following markdown is missing:\n\n# " \o CHANGELOG_TITLE
    \o "\n\nIt must appear at the start of the document."
MISSING_NOTABLE_CHANGES ==
    "The following markdown is missing:\n\n" \o NOTABLE_CHANGES_TEXT
    \o "\n\nIt must appear after:\n\n# " \o CHANGELOG_TITLE
MISSING_ABOUT_FORMAT ==
    "The following markdown is missing:\n\n" \o ABOUT_FORMAT_TEXT
    \o "\n\nIt must appear after:\n\n" \o NOTABLE_CHANGES_TEXT
MISSING_UNRELEASED ==
    "The following markdown is missing:\n\n## " \o UNRELEASED_HEADER_TEXT
    \o "\n\nIt must appear after:\n\n" \o ABOUT_FORMAT_TEXT
MISSING_LIST == "Change Group is missing the required list of changes"
DUPLICATE_CHANGE_GROUP == "Duplicate change group found"
NO_CHANGE_GROUPS ==
    "Release must have at least one change group listed or be tagged with [NO CHANGES]"
ORPHAN_LINK == "Release link version does not match any listed releases"
DuplicateVersionMessage(version) ==
    "Duplicate release version '" \o version \o "' found"
DuplicateLinkMessage(version) ==
    "Duplicate release version link '" \o version \o "' found"

Point(line, column, offset) ==
    [line |-> line, column |-> column, offset |-> offset]

Position(sl, sc, so, el, ec, eo) ==
    [start |-> Point(sl, sc, so), end |-> Point(el, ec, eo)]

DEFAULT_POSITION == Position(1, 1, 0, 1, 1, 0)

(***************************************************************************)
(* Markdown nodes (markdown::mdast::Node).  text is node.to_string(); for  *)
(* a paragraph it is also the rendering of the node, for a definition it   *)
(* is the identifier.  A depth-2 heading of the shape                      *)
(* "[<version>] - <date>" or "[<version>] - <date> [<tag>]" carries the    *)
(* three parts of its text.                                                *)
(***************************************************************************)
Node(type, depth, text) ==
    [type |-> type, depth |-> depth, text |-> text,
     version |-> "", date |-> "", tag |-> "", url |-> ""]

Heading(depth, text) == Node("Heading", depth, text)

ReleaseHeading(version, date, tag) ==
    [type |-> "Heading", depth |-> 2,
     text |-> "[" \o version \o "] - " \o date
              \o (IF tag = "" THEN "" ELSE " [" \o tag \o "]"),
     version |-> version, date |-> date, tag |-> tag, url |-> ""]

Paragraph(text) == Node("Paragraph", 0, text)

RECURSIVE join(_, _)
\* [String]::join
join(strings, separator) ==
    IF Len(strings) = 0 THEN ""
    ELSE IF Len(strings) = 1 THEN strings[1]
    ELSE strings[1] \o separator \o join(Tail(strings), separator)

\* the markdown of a list with the given items, one "- <item>" line each
ListText(items) == join([i \in 1..Len(items) |-> "- " \o items[i]], "\n")

\* a list node with the given items
ListOf(items) == Node("List", 0, ListText(items))

List == ListOf(<<"x">>)

RECURSIVE SeqsUpTo(_, _)
SeqsUpTo(A, n) ==
    IF n = 0 THEN {<<>>}
    ELSE LET S == SeqsUpTo(A, n - 1)
         IN  S \cup {Append(s, a) : s \in S, a \in A}

\* the sample change items, and the item sequences of the sample lists
Items == {"x", "y"}
ItemLists == SeqsUpTo(Items, MaxItems)

Code == Node("Code", 0, "code")

Definition(identifier, url) ==
    [type |-> "Definition", depth |-> 0, text |-> identifier,
     version |-> "", date |-> "", tag |-> "", url |-> url]

\* ParserToken::Eof
Eof == Node("Eof", 0, "")

\* The i-th top-level node of the document occupies one line of 8 bytes and
\* is followed by a blank line.
NodePosition(i) ==
    Position(2 * i - 1, 1, 10 * (i - 1), 2 * i - 1, 9, 10 * (i - 1) + 8)

\* contents.len() of a text that ends with a line break after its last node
DocLength(ns) == IF Len(ns) = 0 THEN 0 ELSE 10 * Len(ns) - 1

\* contents.len() of the texts with the given nodes: the text ends with a
\* line break or, a short one, with its last node
ContentLengths(ns) ==
    {DocLength(ns)}
    \cup (IF Len(ns) \in 1..MaxUnterminated THEN {DocLength(ns) - 1} ELSE {})

(***************************************************************************)
(* Value parsers, decided on the sample texts.                             *)
(***************************************************************************)
\* semver::Version::from_str succeeds
SemverOk(s) == s \in {"1.0.0", "2.0.0", "1.0.0+b1"}

\* ReleaseVersion::from_str
ReleaseVersion_from_str(s) ==
    IF SemverOk(s) THEN [ok |-> TRUE, value |-> s]
    ELSE [ok |-> FALSE, value |-> "Could not parse version as semver"]

\* ReleaseDate::from_str: "<value>T00:00:00Z" parses as an RFC 3339 time
ReleaseDate_from_str(s) ==
    IF s \in {"2000-01-01", "2001-01-01"} THEN [ok |-> TRUE, value |-> s]
    ELSE [ok |-> FALSE, value |-> "Could not parse release date as YYYY-MM-DD"]

\* str::to_lowercase on the sample texts
to_lowercase(s) ==
    CASE s = "YANKED" -> "yanked"
      [] s = "NO CHANGES" -> "no changes"
      [] s = "No Changes" -> "no changes"
      [] s = "UNKNOWN TAG" -> "unknown tag"
      [] s = "Fixed" -> "fixed"
      [] s = "FIXED" -> "fixed"
      [] s = "Added" -> "added"
      [] s = "Changed" -> "changed"
      [] s = "Deprecated" -> "deprecated"
      [] s = "Removed" -> "removed"
      [] s = "Security" -> "security"
      [] s = "Fixd" -> "fixd"
      [] s = "Unreleased" -> "unreleased"
      [] s = "[Unreleased]" -> "[unreleased]"
      [] s = "UNRELEASED" -> "unreleased"
      [] OTHER -> s

\* ReleaseTag::from_str
ReleaseTag_from_str(s) ==
    CASE to_lowercase(s) = "no changes" -> [ok |-> TRUE, value |-> "NoChanges"]
      [] to_lowercase(s) = "yanked" -> [ok |-> TRUE, value |-> "Yanked"]
      [] OTHER -> [ok |-> FALSE, value |-> "Could not parse release tag"]

\* ChangeGroup::from_str (the sample texts carry no surrounding blanks)
ChangeGroup_from_str(s) ==
    CASE to_lowercase(s) = "added" -> [ok |-> TRUE, value |-> "Added"]
      [] to_lowercase(s) = "changed" -> [ok |-> TRUE, value |-> "Changed"]
      [] to_lowercase(s) = "deprecated" -> [ok |-> TRUE, value |-> "Deprecated"]
      [] to_lowercase(s) = "removed" -> [ok |-> TRUE, value |-> "Removed"]
      [] to_lowercase(s) = "fixed" -> [ok |-> TRUE, value |-> "Fixed"]
      [] to_lowercase(s) = "security" -> [ok |-> TRUE, value |-> "Security"]
      [] OTHER -> [ok |-> FALSE, value |-> "Could not parse change group"]

\* ReleaseLink::from_str: uriparse::URI::try_from succeeds
ReleaseLink_from_str(s) ==
    IF s \in {"https://e.x/a", "https://e.x/b"} THEN [ok |-> TRUE, value |-> s]
    ELSE [ok |-> FALSE, value |-> "Could not parse release link as a URI"]

(***************************************************************************)
(* Tree kinds, children and events.                                        *)
(***************************************************************************)
ParserError(message) == message

Error(message) == [k |-> "Error", message |-> message]
Title == [k |-> "Title"]
ChangelogFile == [k |-> "ChangelogFile"]
NotableChanges == [k |-> "NotableChanges"]
AboutFormat == [k |-> "AboutFormat"]
Unreleased == [k |-> "Unreleased"]
UnreleasedHeader == [k |-> "UnreleasedHeader"]
Release == [k |-> "Release"]
\* tag is "" for None, otherwise "Yanked" or "NoChanges"
ReleaseHeader(version, date, tag) ==
    [k |-> "ReleaseHeader", version |-> version, date |-> date, tag |-> tag]
ChangeGroup == [k |-> "ChangeGroup"]
ChangeGroupHeader(change_group) ==
    [k |-> "ChangeGroupHeader", change_group |-> change_group]
ChangeGroupList == [k |-> "ChangeGroupList"]
\* ReleaseLinkType::Unreleased(link) / ReleaseLinkType::Versioned(version, link)
ReleaseLinkUnreleased(link) ==
    [k |-> "ReleaseLink", type |-> "Unreleased", version |-> "", link |-> link]
ReleaseLinkVersioned(version, link) ==
    [k |-> "ReleaseLink", type |-> "Versioned", version |-> version, link |-> link]

MkTree(kind, children) == [kind |-> kind, children |-> children]

\* Child::Markdown of the i-th node, Child::Tree, Child::Dummy
Markdown(i) == [c |-> "Markdown", index |-> i]
TreeChild(t) == [c |-> "Tree", tree |-> t]
Dummy(position) == [c |-> "Dummy", position |-> position]

OpenEvent(kind) == [e |-> "Open", kind |-> kind]
CloseEvent == [e |-> "Close"]
AdvanceEvent == [e |-> "Advance"]
MissingEvent == [e |-> "Missing"]

(***************************************************************************)
(* The parser (struct Parser).  A parser value p holds pos, fuel, events   *)
(* and panic: "" while no assertion of the program has failed, otherwise   *)
(* the first assertion that failed.  The operators below return the parser *)
(* after the call; the value a call returns has an operator of its own.    *)
(***************************************************************************)
Fail(p, assertion) ==
    [p EXCEPT !.panic = IF @ = "" THEN assertion ELSE @]

eof(p) == p.pos = Len(nodes)

\* the value of nth(0)
token(p) == IF p.pos < Len(nodes) THEN nodes[p.pos + 1] ELSE Eof

\* the parser after nth(0): the fuel check and one unit of fuel spent
nth(p) ==
    IF p.fuel = 0 THEN Fail(p, "parser is stuck")
    ELSE [p EXCEPT !.fuel = @ - 1]

\* a mark is the index of its Open event, counted from 0 as in the source
open_mark(p) == Len(p.events)

open(p) ==
    [p EXCEPT !.events = Append(@, OpenEvent(Error(ParserError("Unclosed Event"))))]

\* close that leaves the kind of the Open event as open wrote it
close_unmarked(p, m, kind) ==
    IF m + 1 \in 1..Len(p.events)
    THEN [p EXCEPT !.events = Append(@, CloseEvent)]
    ELSE Fail(p, "index out of bounds")

\* close that writes the kind over the event pushed last
close_rewriting_last(p, m, kind) ==
    IF m + 1 \in 1..Len(p.events)
    THEN [p EXCEPT !.events = Append([@ EXCEPT ![Len(@)] = OpenEvent(kind)], CloseEvent)]
    ELSE Fail(p, "index out of bounds")

close(p, m, kind) ==
    IF m + 1 \in 1..Len(p.events)
    THEN [p EXCEPT !.events = Append([@ EXCEPT ![m + 1] = OpenEvent(kind)], CloseEvent)]
    ELSE Fail(p, "index out of bounds")

\* advance that pushes no event
advance_unlogged(p) ==
    LET q == IF eof(p) THEN Fail(p, "advance at end of input") ELSE p
    IN  [q EXCEPT !.fuel = FuelInit, !.pos = @ + 1]

\* advance that leaves the fuel as it is
advance_no_refuel(p) ==
    LET q == IF eof(p) THEN Fail(p, "advance at end of input") ELSE p
    IN  [q EXCEPT !.events = Append(@, AdvanceEvent),
                  !.pos = @ + 1]

advance(p) ==
    LET q == IF eof(p) THEN Fail(p, "advance at end of input") ELSE p
    IN  [q EXCEPT !.fuel = FuelInit,
                  !.events = Append(@, AdvanceEvent),
                  !.pos = @ + 1]

advance_with_error(p, error_fn(_)) ==
    LET q == IF eof(p) THEN Fail(p, "advance_with_error at end of input") ELSE p
        error_message == IF eof(p) THEN "unreachable" ELSE error_fn(token(p))
        p1 == nth(q)
        m == open_mark(p1)
    IN  close(advance(open(p1)), m, Error(ParserError(error_message)))

\* capture_missing_node that takes the node at the cursor with it
capture_missing_node_consuming(p, error) ==
    LET m == open_mark(p)
        p1 == open(p)
        p2 == [p1 EXCEPT !.events = Append(@, MissingEvent),
                         !.pos = IF eof(p1) THEN @ ELSE @ + 1]
    IN  close(p2, m, Error(ParserError(error)))

\* capture_missing_node that pushes no Missing event
capture_missing_node_empty(p, error) ==
    LET m == open_mark(p)
    IN  close(open(p), m, Error(ParserError(error)))

capture_missing_node(p, error) ==
    LET m == open_mark(p)
        p1 == open(p)
        p2 == [p1 EXCEPT !.events = Append(@, MissingEvent)]
    IN  close(p2, m, Error(ParserError(error)))

\* the value of at(test_fn); the parser after at(test_fn) is nth(p)
at(p, test_fn(_)) == token(p).type # "Eof" /\ test_fn(token(p))

\* the parser after eat(test_fn); eat returns at(p, test_fn)
eat(p, test_fn(_)) ==
    IF at(p, test_fn) THEN advance(nth(p)) ELSE nth(p)

expect(p, test_fn(_), else_error(_)) ==
    IF at(p, test_fn) THEN eat(p, test_fn)
    ELSE LET p1 == nth(eat(p, test_fn))
         IN  IF token(p).type # "Eof" THEN advance_with_error(p1, else_error)
             ELSE p1

\* get_dummy_node_position without the clamp to the length of the document
get_dummy_node_position_unclamped(position_before, length) ==
    IF position_before.some
    THEN LET position == position_before.value
         IN  Position(position.end.line + 1, 1, position.end.offset + 1,
                      position.end.line + 1, 1, position.end.offset + 1)
    ELSE Position(1, 1, 0, 1, 1, 0)

get_dummy_node_position(position_before, length) ==
    IF position_before.some
    THEN LET position == position_before.value
             clamped == IF position.end.offset + 1 > length THEN length
                        ELSE position.end.offset + 1
         IN  Position(position.end.line + 1, 1, clamped,
                      position.end.line + 1, 1, clamped)
    ELSE Position(1, 1, 0, 1, 1, 0)

\* the rendering of a node, as far as the messages of the parser need it
to_markdown(node) ==
    CASE node.type = "Heading" /\ node.depth = 1 -> "# " \o node.text
      [] node.type = "Heading" /\ node.depth = 2 -> "## " \o node.text
      [] node.type = "Heading" /\ node.depth = 3 -> "### " \o node.text
      [] OTHER -> node.text

\* matches_markdown(node, ABOUT_FORMAT_TEXT): equal up to white space
matches_about_format(node) ==
    node.text \in {ABOUT_FORMAT_TEXT, ABOUT_FORMAT_ONE_LINE}

\* UNRELEASED_HEADER_REGEX = ^(\[Unreleased]|Unreleased)$
UNRELEASED_HEADER_REGEX(text) == text \in {"[Unreleased]", "Unreleased"}

\* RELEASE_HEADER_REGEX matches node.to_string(): the sample headings of the
\* shape "[<version>] - <date>" with an optional " [<tag>]" are the ones
\* built by ReleaseHeading
RELEASE_HEADER_REGEX(node) == node.version # "" /\ node.date # ""

IsHeading(node, depth) == node.type = "Heading" /\ node.depth = depth
IsParagraph(node) == node.type = "Paragraph"
IsList(node) == node.type = "List"
IsDefinition(node) == node.type = "Definition"

format_change_group_headers ==
    "### Added, ### Changed, ### Deprecated, ### Fixed, ### Removed, ### Security"

(***************************************************************************)
(* The grammar.  Each function of the source is an operator from the       *)
(* parser before the call to the parser after it.  The three loops         *)
(* (changelog_file, unreleased, release) are unrolled by the actions       *)
(* further down, one iteration per step.                                   *)
(***************************************************************************)
IsH1(node) == IsHeading(node, 1)
IsH2(node) == IsHeading(node, 2)
IsH3(node) == IsHeading(node, 3)

title(p) ==
    IF at(p, IsH1)
    THEN LET p1 == nth(p)
             m == open_mark(p1)
             p2 == expect(open(p1),
                          LAMBDA node: node.text = CHANGELOG_TITLE,
                          LAMBDA node: "Expected '# " \o CHANGELOG_TITLE \o "' but found '# "
                                       \o node.text \o "'")
         IN  close(p2, m, Title)
    ELSE capture_missing_node(nth(p), MISSING_TITLE)

notable_changes_text(p) ==
    IF at(p, IsParagraph) /\ ~at(nth(p), matches_about_format)
    THEN LET p1 == nth(nth(p))
             m == open_mark(p1)
             p2 == expect(open(p1),
                          LAMBDA node: node.text = NOTABLE_CHANGES_TEXT,
                          LAMBDA node: "Expected the following markdown:\n\n"
                                       \o NOTABLE_CHANGES_TEXT \o "\n\nbut was:\n\n"
                                       \o to_markdown(node))
         IN  close(p2, m, NotableChanges)
    ELSE LET p1 == IF at(p, IsParagraph) THEN nth(nth(p)) ELSE nth(p)
         IN  capture_missing_node(p1, MISSING_NOTABLE_CHANGES)

about_format_text(p) ==
    IF at(p, IsParagraph)
    THEN LET p1 == nth(p)
             m == open_mark(p1)
             p2 == expect(open(p1),
                          matches_about_format,
                          LAMBDA node: "Expected the following markdown:\n\n"
                                       \o ABOUT_FORMAT_TEXT \o "\n\nbut was:\n\n"
                                       \o to_markdown(node))
         IN  close(p2, m, AboutFormat)
    ELSE capture_missing_node(nth(p), MISSING_ABOUT_FORMAT)

\* the condition without the test for the heading
unreleased_present_any_node(p) == ~at(nth(p), RELEASE_HEADER_REGEX)

\* the condition of unreleased (lines 638-639) and the parser after it

unreleased_present(p) == at(p, IsH2) /\ ~at(nth(p), RELEASE_HEADER_REGEX)

unreleased_tested(p) == IF at(p, IsH2) THEN nth(nth(p)) ELSE nth(p)

\* lines 641-654: the Unreleased block is opened (mark open_mark(p)) and its
\* header parsed
unreleased_header(p) ==
    LET m == open_mark(open(p))
        p1 == expect(open(open(p)),
                     LAMBDA node: UNRELEASED_HEADER_REGEX(node.text),
                     LAMBDA node: "Expected '## " \o UNRELEASED_HEADER_TEXT
                                  \o "' but found '"
                                  \o to_markdown(node) \o "'")
    IN  close(p1, m, UnreleasedHeader)

\* unreleased that reports no missing header
unreleased_missing_unreported(p) == p

\* line 671
unreleased_missing(p) ==
    capture_missing_node(p, MISSING_UNRELEASED)

change_group_header(p) ==
    IF token(p).type # "Eof"
    THEN LET parsed == ChangeGroup_from_str(token(p).text)
             p1 == nth(p)
         IN  IF parsed.ok
             THEN LET m == open_mark(p1)
                  IN  close(advance(open(p1)), m, ChangeGroupHeader(parsed.value))
             ELSE advance_with_error(p1,
                      LAMBDA node: "Expected one of the following change groups:\n\n"
                                   \o format_change_group_headers
                                   \o "\n\nbut found:\n\n" \o to_markdown(node))
    ELSE advance_with_error(nth(p),
             LAMBDA node: "Expected one of the following change groups:\n\n"
                          \o format_change_group_headers
                          \o "\n\nbut found:\n\n" \o to_markdown(node))

\* change_group without the test for the list
change_group_unchecked_list(p) ==
    IF at(p, IsH3)
    THEN LET p1 == nth(p)
             m == open_mark(p1)
             p2 == change_group_header(open(p1))
             p3 == nth(p2)
             p4 == close(advance(open(p3)), open_mark(p3), ChangeGroupList)
         IN  close(p4, m, ChangeGroup)
    ELSE capture_missing_node(nth(p),
             "Missing one of the following change groups: "
             \o format_change_group_headers)

\* change_group that reports no missing list
change_group_list_optional(p) ==
    IF at(p, IsH3)
    THEN LET p1 == nth(p)
             m == open_mark(p1)
             p2 == change_group_header(open(p1))
             p3 == nth(p2)
             p4 == IF at(p2, IsList)
                   THEN close(advance(open(p3)), open_mark(p3), ChangeGroupList)
                   ELSE p3
         IN  close(p4, m, ChangeGroup)
    ELSE capture_missing_node(nth(p),
             "Missing one of the following change groups: "
             \o format_change_group_headers)

change_group(p) ==
    IF at(p, IsH3)
    THEN LET p1 == nth(p)
             m == open_mark(p1)
             p2 == change_group_header(open(p1))
             p3 == nth(p2)
             p4 == IF at(p2, IsList)
                   THEN close(advance(open(p3)), open_mark(p3), ChangeGroupList)
                   ELSE capture_missing_node(p3,
                            MISSING_LIST)
         IN  close(p4, m, ChangeGroup)
    ELSE capture_missing_node(nth(p),
             "Missing one of the following change groups: "
             \o format_change_group_headers)

\* release_header that parses the date before the version
release_header_date_first(p) ==
    IF token(p).type # "Eof"
    THEN LET node == token(p)
             p1 == nth(p)
         IN  IF RELEASE_HEADER_REGEX(node)
             THEN LET release_version == ReleaseVersion_from_str(node.version)
                      release_date == ReleaseDate_from_str(node.date)
                      release_tag == IF node.tag # ""
                                     THEN ReleaseTag_from_str(node.tag)
                                     ELSE [ok |-> TRUE, value |-> ""]
                  IN  CASE ~release_date.ok ->
                             advance_with_error(p1,
                                 LAMBDA n: "Invalid release date '"
                                           \o node.date \o "' - "
                                           \o release_date.value)
                        [] release_date.ok /\ ~release_version.ok ->
                             advance_with_error(p1,
                                 LAMBDA n: "Invalid release version '"
                                           \o node.version \o "' - "
                                           \o release_version.value)
                        [] release_version.ok /\ release_date.ok /\ ~release_tag.ok ->
                             advance_with_error(p1,
                                 LAMBDA n: "Invalid release tag '"
                                           \o node.tag \o "' - "
                                           \o release_tag.value)
                        [] OTHER ->
                             close(advance(open(p1)), open_mark(p1),
                                   ReleaseHeader(release_version.value,
                                                 release_date.value,
                                                 release_tag.value))
             ELSE advance_with_error(p1,
                      LAMBDA n: "Expected Release Header with the format '[<semver>] - <YYYY>-<MM>-<DD> - [<tag>]' but found '"
                                \o to_markdown(n) \o "'")
    ELSE nth(p)

\* release_header that looks at the heading and leaves it at the cursor
release_header_peek(p) == nth(p)

release_header(p) ==
    IF token(p).type # "Eof"
    THEN LET node == token(p)
             p1 == nth(p)
         IN  IF RELEASE_HEADER_REGEX(node)
             THEN LET release_version == ReleaseVersion_from_str(node.version)
                      release_date == ReleaseDate_from_str(node.date)
                      release_tag == IF node.tag # ""
                                     THEN ReleaseTag_from_str(node.tag)
                                     ELSE [ok |-> TRUE, value |-> ""]
                  IN  CASE ~release_version.ok ->
                             advance_with_error(p1,
                                 LAMBDA n: "Invalid release version '"
                                           \o node.version \o "' - "
                                           \o release_version.value)
                        [] release_version.ok /\ ~release_date.ok ->
                             advance_with_error(p1,
                                 LAMBDA n: "Invalid release date '"
                                           \o node.date \o "' - "
                                           \o release_date.value)
                        [] release_version.ok /\ release_date.ok /\ ~release_tag.ok ->
                             advance_with_error(p1,
                                 LAMBDA n: "Invalid release tag '"
                                           \o node.tag \o "' - "
                                           \o release_tag.value)
                        [] OTHER ->
                             close(advance(open(p1)), open_mark(p1),
                                   ReleaseHeader(release_version.value,
                                                 release_date.value,
                                                 release_tag.value))
             ELSE advance_with_error(p1,
                      LAMBDA n: "Expected Release Header with the format '[<semver>] - <YYYY>-<MM>-<DD> - [<tag>]' but found '"
                                \o to_markdown(n) \o "'")
    ELSE nth(p)

\* lines 679-682: the Release block is opened (mark open_mark(nth(p))) and
\* its header parsed
release(p) ==
    IF at(p, IsH2) THEN release_header(open(nth(p))) ELSE nth(p)

release_link(p) ==
    IF token(p).type = "Definition"
    THEN LET identifier == token(p).text
             url == token(p).url
             p1 == nth(p)
             release_link_parsed == ReleaseLink_from_str(url)
             version == ReleaseVersion_from_str(identifier)
         IN  CASE ~release_link_parsed.ok ->
                    advance_with_error(p1,
                        LAMBDA n: "Invalid url '" \o url \o "' in release link - "
                                  \o release_link_parsed.value)
               [] release_link_parsed.ok
                  /\ to_lowercase(identifier) = to_lowercase(UNRELEASED_HEADER_TEXT) ->
                    close(advance(open(p1)), open_mark(p1),
                          ReleaseLinkUnreleased(release_link_parsed.value))
               [] release_link_parsed.ok
                  /\ to_lowercase(identifier) # to_lowercase(UNRELEASED_HEADER_TEXT)
                  /\ ~version.ok ->
                    advance_with_error(p1,
                        LAMBDA n: "Invalid version '" \o identifier
                                  \o "' in release link - " \o version.value)
               [] OTHER ->
                    close(advance(open(p1)), open_mark(p1),
                          ReleaseLinkVersioned(version.value,
                                               release_link_parsed.value))
    ELSE advance_with_error(nth(p),
             LAMBDA n: "Expected Release Link but found:\n\n" \o to_markdown(n))

\* One test of the loop of unreleased (lines 656-667) and of release (lines
\* 684-695): which branch is taken, and the parser after the tests.
\* the loop that leaves the block at a node it does not expect
block_branch_break_on_unexpected(p) ==
    CASE eof(p) -> "exit"
      [] ~eof(p) /\ at(p, IsH3) -> "change_group"
      [] OTHER -> "break"

\* the loop that leaves the block at a depth-2 heading only
block_branch_through_links(p) ==
    CASE eof(p) -> "exit"
      [] ~eof(p) /\ at(p, IsH3) -> "change_group"
      [] ~eof(p) /\ ~at(p, IsH3) /\ at(p, IsH2) -> "break"
      [] OTHER -> "unexpected"

block_branch(p) ==
    CASE eof(p) -> "exit"
      [] ~eof(p) /\ at(p, IsH3) -> "change_group"
      [] ~eof(p) /\ ~at(p, IsH3) /\ (at(p, IsH2) \/ at(p, IsDefinition)) -> "break"
      [] OTHER -> "unexpected"

block_tested(p) ==
    CASE eof(p) -> p
      [] ~eof(p) /\ at(p, IsH3) -> nth(p)
      [] ~eof(p) /\ ~at(p, IsH3) /\ at(p, IsH2) -> nth(nth(p))
      [] OTHER -> nth(nth(nth(p)))

\* One test of the loop of changelog_file (lines 561-571).
root_branch(p) ==
    CASE eof(p) -> "exit"
      [] ~eof(p) /\ at(p, IsH2) -> "release"
      [] ~eof(p) /\ ~at(p, IsH2) /\ at(p, IsDefinition) -> "release_link"
      [] OTHER -> "unexpected"

root_tested(p) ==
    CASE eof(p) -> p
      [] ~eof(p) /\ at(p, IsH2) -> nth(p)
      [] OTHER -> nth(nth(p))

(***************************************************************************)
(* Parser::build_tree.  st holds the stack of open trees, the index of the *)
(* next node of the node iterator, previous_position and panic.            *)
(***************************************************************************)
None == [some |-> FALSE]
Some(value) == [some |-> TRUE, value |-> value]

NoTree == MkTree([k |-> "None"], <<>>)

push_child(st, child) ==
    IF Len(st.stack) = 0
    THEN [st EXCEPT !.panic = IF @ = "" THEN "a parent tree should always be present" ELSE @]
    ELSE [st EXCEPT !.stack[Len(st.stack)].children = Append(@, child)]

build_event(st, event, length) ==
    CASE event.e = "Open" ->
           [st EXCEPT !.stack = Append(@, MkTree(event.kind, <<>>))]
      [] event.e = "Close" ->
           IF Len(st.stack) = 0
           THEN [st EXCEPT !.panic = IF @ = "" THEN "stack should not be empty" ELSE @]
           ELSE push_child([st EXCEPT !.stack = SubSeq(@, 1, Len(@) - 1)],
                           TreeChild(st.stack[Len(st.stack)]))
      [] event.e = "Advance" ->
           IF st.next > Len(nodes)
           THEN [st EXCEPT !.panic = IF @ = "" THEN "advance events should correspond to an existing node being present" ELSE @]
           ELSE push_child([st EXCEPT !.next = @ + 1,
                                      !.previous_position = Some(NodePosition(st.next))],
                           Markdown(st.next))
      [] OTHER ->
           push_child(st, Dummy(get_dummy_node_position(st.previous_position, length)))

RECURSIVE build_loop(_, _, _, _)
build_loop(evs, i, st, length) ==
    IF i > Len(evs) \/ st.panic # "" THEN st
    ELSE build_loop(evs, i + 1, build_event(st, evs[i], length), length)

\* the tree build_tree returns, and the assertion that failed if one did
build_tree(p, length) ==
    IF Len(p.events) = 0 \/ p.events[Len(p.events)].e # "Close"
    THEN [tree |-> NoTree, panic |-> "last event is not Close"]
    ELSE LET st == build_loop(SubSeq(p.events, 1, Len(p.events) - 1), 1,
                              [stack |-> <<>>, next |-> 1,
                               previous_position |-> None, panic |-> ""],
                              length)
         IN  CASE st.panic # "" -> [tree |-> NoTree, panic |-> st.panic]
               [] st.panic = "" /\ Len(st.stack) = 0 ->
                    [tree |-> NoTree, panic |-> "stack should not be empty"]
               [] st.panic = "" /\ Len(st.stack) > 1 ->
                    [tree |-> NoTree, panic |-> "stack is not empty"]
               [] st.panic = "" /\ Len(st.stack) = 1 /\ st.next <= Len(nodes) ->
                    [tree |-> NoTree, panic |-> "unconsumed node"]
               [] OTHER -> [tree |-> st.stack[1], panic |-> ""]

(***************************************************************************)
(* Tree: iteration, position, diagnostics.                                 *)
(***************************************************************************)
RECURSIVE append_children(_)
\* child_iter: the children of a tree and of its subtrees, depth first,
\* each subtree before its own children
append_children(children) ==
    IF children = <<>> THEN <<>>
    ELSE LET child == Head(children)
         IN  <<child>>
             \o (IF child.c = "Tree" THEN append_children(child.tree.children)
                 ELSE <<>>)
             \o append_children(Tail(children))

child_iter(t) == append_children(t.children)

SeqMap(Op(_), s) == [i \in 1..Len(s) |-> Op(s[i])]

tree_iter(t) ==
    SeqMap(LAMBDA child: child.tree,
           SelectSeq(child_iter(t), LAMBDA child: child.c = "Tree"))

tree_children(t) ==
    SeqMap(LAMBDA child: child.tree,
           SelectSeq(t.children, LAMBDA child: child.c = "Tree"))

\* position that ends where its first position ends
position_of_first(t) ==
    LET positions ==
            SeqMap(LAMBDA child: IF child.c = "Markdown"
                                 THEN NodePosition(child.index)
                                 ELSE child.position,
                   SelectSeq(child_iter(t), LAMBDA child: child.c # "Tree"))
    IN  IF Len(positions) > 0 THEN positions[1] ELSE DEFAULT_POSITION

position(t) ==
    LET positions ==
            SeqMap(LAMBDA child: IF child.c = "Markdown"
                                 THEN NodePosition(child.index)
                                 ELSE child.position,
                   SelectSeq(child_iter(t), LAMBDA child: child.c # "Tree"))
        first == IF Len(positions) > 0 THEN positions[1] ELSE DEFAULT_POSITION
        last == IF Len(positions) > 1 THEN positions[Len(positions)] ELSE first
    IN  Position(first.start.line, first.start.column, first.start.offset,
                 last.end.line, last.end.column, last.end.offset)

Diagnostic(message, pos_) == [message |-> message, position |-> pos_]

RECURSIVE change_group_scan(_, _, _, _)
\* lines 241-253: st holds the set change_groups and the list errors
change_group_scan(ts, i, change_groups, errors) ==
    IF i > Len(ts) THEN [change_groups |-> change_groups, errors |-> errors]
    ELSE IF ts[i].kind.k = "ChangeGroupHeader"
         THEN IF ts[i].kind.change_group \in change_groups
              THEN change_group_scan(ts, i + 1, change_groups,
                       Append(errors, Diagnostic(DUPLICATE_CHANGE_GROUP,
                                                 position(ts[i]))))
              ELSE change_group_scan(ts, i + 1,
                       change_groups \cup {ts[i].kind.change_group}, errors)
         ELSE change_group_scan(ts, i + 1, change_groups, errors)

\* the test that takes any tag for NoChanges
tagged_no_changes_any_tag(t) ==
    \E i \in 1..Len(t.children) :
        /\ t.children[i].c = "Tree"
        /\ t.children[i].tree.kind.k = "ReleaseHeader"
        /\ t.children[i].tree.kind.tag # ""

\* lines 257-265: a direct child is a ReleaseHeader tagged NoChanges
tagged_no_changes(t) ==
    \E i \in 1..Len(t.children) :
        /\ t.children[i].c = "Tree"
        /\ t.children[i].tree.kind.k = "ReleaseHeader"
        /\ t.children[i].tree.kind.tag = "NoChanges"

\* validate_change_groups that looks at the direct children of the block only
validate_change_groups_direct_children(t, errors) ==
    LET scanned == change_group_scan(tree_children(t), 1, {}, errors)
    IN  IF /\ t.kind = Release
           /\ scanned.change_groups = {}
           /\ ~tagged_no_changes(t)
        THEN Append(scanned.errors,
                    Diagnostic(NO_CHANGE_GROUPS,
                               position(t)))
        ELSE scanned.errors

\* the list errors after validate_change_groups(t, errors)
validate_change_groups(t, errors) ==
    LET scanned == change_group_scan(tree_iter(t), 1, {}, errors)
    IN  IF /\ t.kind = Release
           /\ scanned.change_groups = {}
           /\ ~tagged_no_changes(t)
        THEN Append(scanned.errors,
                    Diagnostic(NO_CHANGE_GROUPS,
                               position(t)))
        ELSE scanned.errors

\* IndexMap::get on the map kept as a sequence of entries in insertion order
map_index(map, version) ==
    IF \E i \in 1..Len(map) : map[i].version = version
    THEN CHOOSE i \in 1..Len(map) : map[i].version = version
    ELSE 0

\* IndexMap::insert: a new key is appended, an old key keeps its place
map_insert(map, version, release_, link) ==
    LET entry == [version |-> version, release |-> release_, link |-> link]
        i == map_index(map, version)
    IN  IF i = 0 THEN Append(map, entry) ELSE [map EXCEPT ![i] = entry]

RECURSIVE release_link_scan_release_slot(_, _, _, _)
\* release_link_scan that takes a link for a duplicate when the release of
\* its version is known
release_link_scan_release_slot(ts, i, map, errors) ==
    IF i > Len(ts) THEN [map |-> map, errors |-> errors]
    ELSE LET t == ts[i]
             j == map_index(map, t.kind.version)
         IN  CASE t.kind.k = "ReleaseHeader" ->
                    IF j # 0 /\ map[j].release.some
                    THEN release_link_scan_release_slot(ts, i + 1, map,
                             Append(errors,
                                    Diagnostic(DuplicateVersionMessage(t.kind.version),
                                               position(t))))
                    ELSE release_link_scan_release_slot(ts, i + 1,
                             map_insert(map, t.kind.version, Some(t),
                                        IF j # 0 THEN map[j].link ELSE None),
                             errors)
               [] t.kind.k = "ReleaseLink" /\ t.kind.type = "Versioned" ->
                    IF j # 0 /\ map[j].release.some
                    THEN release_link_scan_release_slot(ts, i + 1, map,
                             Append(errors,
                                    Diagnostic(DuplicateLinkMessage(t.kind.version),
                                               position(t))))
                    ELSE release_link_scan_release_slot(ts, i + 1,
                             map_insert(map, t.kind.version,
                                        IF j # 0 THEN map[j].release ELSE None,
                                        Some(t)),
                             errors)
               [] OTHER -> release_link_scan_release_slot(ts, i + 1, map, errors)

RECURSIVE release_link_scan(_, _, _, _)
\* lines 190-228
release_link_scan(ts, i, map, errors) ==
    IF i > Len(ts) THEN [map |-> map, errors |-> errors]
    ELSE LET t == ts[i]
             j == map_index(map, t.kind.version)
         IN  CASE t.kind.k = "ReleaseHeader" ->
                    IF j # 0 /\ map[j].release.some
                    THEN release_link_scan(ts, i + 1, map,
                             Append(errors,
                                    Diagnostic(DuplicateVersionMessage(t.kind.version),
                                               position(t))))
                    ELSE release_link_scan(ts, i + 1,
                             map_insert(map, t.kind.version, Some(t),
                                        IF j # 0 THEN map[j].link ELSE None),
                             errors)
               [] t.kind.k = "ReleaseLink" /\ t.kind.type = "Versioned" ->
                    IF j # 0 /\ map[j].link.some
                    THEN release_link_scan(ts, i + 1, map,
                             Append(errors,
                                    Diagnostic(DuplicateLinkMessage(t.kind.version),
                                               position(t))))
                    ELSE release_link_scan(ts, i + 1,
                             map_insert(map, t.kind.version,
                                        IF j # 0 THEN map[j].release ELSE None,
                                        Some(t)),
                             errors)
               [] OTHER -> release_link_scan(ts, i + 1, map, errors)

RECURSIVE orphan_links_any_link(_, _, _)
\* orphan_links that does not look at the release of the entry
orphan_links_any_link(map, i, errors) ==
    IF i > Len(map) THEN errors
    ELSE IF map[i].link.some
         THEN orphan_links_any_link(map, i + 1,
                  Append(errors,
                         Diagnostic(ORPHAN_LINK,
                                    position(map[i].link.value))))
         ELSE orphan_links_any_link(map, i + 1, errors)

RECURSIVE orphan_links(_, _, _)
\* lines 230-237
orphan_links(map, i, errors) ==
    IF i > Len(map) THEN errors
    ELSE IF ~map[i].release.some /\ map[i].link.some
         THEN orphan_links(map, i + 1,
                  Append(errors,
                         Diagnostic(ORPHAN_LINK,
                                    position(map[i].link.value))))
         ELSE orphan_links(map, i + 1, errors)

\* the list errors after validate_release_links(t, errors)
validate_release_links(t, errors) ==
    LET scanned == release_link_scan(tree_iter(t), 1, <<>>, errors)
    IN  orphan_links(scanned.map, 1, scanned.errors)

RECURSIVE diagnostics_walk(_, _, _)
\* lines 102-108
diagnostics_walk(ts, i, errors) ==
    IF i > Len(ts) THEN errors
    ELSE CASE ts[i].kind.k = "Error" ->
                diagnostics_walk(ts, i + 1,
                    Append(errors, Diagnostic(ts[i].kind.message, position(ts[i]))))
           [] ts[i].kind = Release \/ ts[i].kind = Unreleased ->
                diagnostics_walk(ts, i + 1, validate_change_groups(ts[i], errors))
           [] OTHER -> diagnostics_walk(ts, i + 1, errors)

\* get_diagnostics that validates the release links before it walks the tree
get_diagnostics_links_first(t) ==
    diagnostics_walk(tree_iter(t), 1, validate_release_links(t, <<>>))

\* Tree::get_diagnostics; the assertion on the root kind is checked by the
\* action that calls it
get_diagnostics(t) ==
    validate_release_links(t, diagnostics_walk(tree_iter(t), 1, <<>>))

(***************************************************************************)
(* Changelog::from_str (src/src/changelog.rs): parse_changelog walks the   *)
(* top-level nodes itself.  Changes is a sequence of [group, items] in     *)
(* insertion order, Releases a sequence of releases in insertion order.    *)
(***************************************************************************)
Ok(value) == [ok |-> TRUE, value |-> value]
Err(error) == [ok |-> FALSE, error |-> error]

\* UNRELEASED_HEADER = (?i)^\[?unreleased]?$
UNRELEASED_HEADER(text) == to_lowercase(text) \in {"unreleased", "[unreleased]"}

\* VERSIONED_RELEASE_HEADER: the version is \d+\.\d+\.\d+ and the date is
\* \d{4}[-/]\d{2}[-/]\d{2}
VERSIONED_RELEASE_HEADER(node) ==
    /\ node.version \in {"1.0.0", "2.0.0", "00.01.02"}
    /\ node.date \in {"2000-01-01", "2001-01-01", "2000-13-01", "2000/01/01"}

\* chrono with_ymd_and_hms on the captured year, month and day
ymd(date) ==
    CASE date = "2000-01-01" -> Ok("2000-01-01")
      [] date = "2000/01/01" -> Ok("2000-01-01")
      [] date = "2001-01-01" -> Ok("2001-01-01")
      [] OTHER -> Err("InvalidReleaseDate")

parse_release_heading(node) ==
    IF UNRELEASED_HEADER(node.text) THEN Ok([type |-> "Unreleased"])
    ELSE IF VERSIONED_RELEASE_HEADER(node)
    THEN CASE ~SemverOk(node.version) -> Err("Version")
           [] SemverOk(node.version) /\ ~ymd(node.date).ok -> Err("InvalidReleaseDate")
           [] SemverOk(node.version) /\ ymd(node.date).ok
              /\ node.tag # ""
              /\ to_lowercase(node.tag) \notin {"no changes", "yanked"} ->
                Err("InvalidReleaseTag")
           [] OTHER ->
                Ok([type |-> "Versioned", version |-> node.version,
                    date |-> ymd(node.date).value,
                    tag |-> CASE node.tag = "" -> ""
                              [] to_lowercase(node.tag) = "no changes" -> "NoChanges"
                              [] OTHER -> "Yanked"])
    ELSE Err("NoMatchForReleaseHeading")

parse_change_group_heading(heading) ==
    IF ChangeGroup_from_str(heading).ok THEN Ok(ChangeGroup_from_str(heading).value)
    ELSE Err("InvalidChangeGroup")

parse_release_link(version, url) ==
    IF to_lowercase(version) = "unreleased"
    THEN IF ReleaseLink_from_str(url).ok
         THEN Some([type |-> "Unreleased", uri |-> url]) ELSE None
    ELSE IF SemverOk(version)
    THEN IF ReleaseLink_from_str(url).ok
         THEN Some([type |-> "Versioned", version |-> version, uri |-> url])
         ELSE None
    ELSE None

\* lines 305-313: the texts of the list items of a list node, each the
\* slice of the input at the item with the leading "- " trimmed
list_items(node) == CHOOSE items \in ItemLists : ListText(items) = node.text

\* changes.entry(group).or_default().push(text) for every text of items
changes_push(changes, group, items) ==
    IF \E i \in 1..Len(changes) : changes[i].group = group
    THEN LET i == CHOOSE i \in 1..Len(changes) : changes[i].group = group
         IN  [changes EXCEPT ![i].items = @ \o items]
    ELSE IF items = <<>> THEN changes
    ELSE Append(changes, [group |-> group, items |-> items])

RECURSIVE collect_lists(_, _, _, _)
\* lines 303-357: the list nodes that follow a change group heading
collect_lists(ns, j, group, changes) ==
    IF j <= Len(ns) /\ IsList(ns[j])
    THEN collect_lists(ns, j + 1, group, changes_push(changes, group, list_items(ns[j])))
    ELSE [next |-> j, changes |-> changes]

RECURSIVE collect_change_groups(_, _, _)
\* lines 298-359: the change groups that follow a release heading
collect_change_groups(ns, j, changes) ==
    IF j <= Len(ns) /\ IsH3(ns[j])
    THEN LET change_group_ == parse_change_group_heading(ns[j].text)
         IN  IF ~change_group_.ok
             THEN [next |-> j, changes |-> changes, error |-> change_group_.error]
             ELSE LET lists == collect_lists(ns, j + 1, change_group_.value, changes)
                  IN  collect_change_groups(ns, lists.next, lists.changes)
    ELSE [next |-> j, changes |-> changes, error |-> ""]

\* IndexMap::insert on releases
releases_insert(releases, release_) ==
    IF \E i \in 1..Len(releases) : releases[i].version = release_.version
    THEN LET i == CHOOSE i \in 1..Len(releases) : releases[i].version = release_.version
         IN  [releases EXCEPT ![i] = release_]
    ELSE Append(releases, release_)

RECURSIVE parse_changelog_loop(_, _, _)
\* lines 293-397: acc holds unreleased, unreleased_link, releases and
\* release_links (a function from the versions seen to their link)
parse_changelog_loop(ns, i, acc) ==
    IF i > Len(ns) THEN Ok(acc)
    ELSE IF IsH2(ns[i])
    THEN LET release_entry_type == parse_release_heading(ns[i])
             groups == collect_change_groups(ns, i + 1, <<>>)
         IN  CASE ~release_entry_type.ok -> Err(release_entry_type.error)
               [] release_entry_type.ok /\ groups.error # "" -> Err(groups.error)
               [] release_entry_type.ok /\ groups.error = ""
                  /\ release_entry_type.value.type = "Unreleased" ->
                    parse_changelog_loop(ns, groups.next,
                        [acc EXCEPT !.unreleased =
                            Some([changes |-> groups.changes, link |-> None])])
               [] OTHER ->
                    parse_changelog_loop(ns, groups.next,
                        [acc EXCEPT !.releases =
                            releases_insert(@,
                                [version |-> release_entry_type.value.version,
                                 date |-> release_entry_type.value.date,
                                 tag |-> release_entry_type.value.tag,
                                 link |-> None,
                                 changes |-> groups.changes])])
    ELSE IF IsDefinition(ns[i])
    THEN LET release_link_ == parse_release_link(ns[i].text, ns[i].url)
         IN  CASE ~release_link_.some -> parse_changelog_loop(ns, i + 1, acc)
               [] release_link_.some /\ release_link_.value.type = "Unreleased" ->
                    parse_changelog_loop(ns, i + 1,
                        [acc EXCEPT !.unreleased_link = Some(release_link_.value.uri)])
               [] OTHER ->
                    parse_changelog_loop(ns, i + 1,
                        [acc EXCEPT !.release_links =
                            [v \in (DOMAIN @) \cup {release_link_.value.version} |->
                                IF v = release_link_.value.version
                                THEN release_link_.value.uri ELSE @[v]]])
    ELSE parse_changelog_loop(ns, i + 1, acc)

\* parse_changelog: Ok(Changelog) or Err(ParseChangelogErrorInternal)
parse_changelog(ns) ==
    LET walked == parse_changelog_loop(ns, 1,
                      [unreleased |-> None, unreleased_link |-> None,
                       releases |-> <<>>, release_links |-> <<>>])
    IN  IF ~walked.ok THEN walked
        ELSE LET acc == walked.value
                 no_changes == [changes |-> <<>>, link |-> None]
             IN  Ok([unreleased |->
                        IF acc.unreleased.some
                        THEN [acc.unreleased.value EXCEPT !.link = acc.unreleased_link]
                        ELSE no_changes,
                     releases |->
                        [i \in 1..Len(acc.releases) |->
                            IF acc.releases[i].version \in DOMAIN acc.release_links
                            THEN [acc.releases[i] EXCEPT
                                    !.link = Some(acc.release_links[acc.releases[i].version])]
                            ELSE acc.releases[i]]])

\* impl FromStr for Changelog
from_str(ns) == parse_changelog(ns)

(***************************************************************************)
(* impl Display for Changelog.  The text written is given as the sequence  *)
(* of the top-level markdown nodes it consists of: the blocks that         *)
(* "\n\n" separates, and one definition for every "\n[<label>]: <link>".   *)
(***************************************************************************)
\* impl Display for ChangeGroup
ChangeGroup_fmt(change_group_) ==
    CASE change_group_ = "Added" -> "Added"
      [] change_group_ = "Changed" -> "Changed"
      [] change_group_ = "Deprecated" -> "Deprecated"
      [] change_group_ = "Removed" -> "Removed"
      [] change_group_ = "Fixed" -> "Fixed"
      [] change_group_ = "Security" -> "Security"

\* ReleaseTag written with the name of its variant
ReleaseTag_fmt_variant_name(tag) == tag

\* impl Display for ReleaseTag
ReleaseTag_fmt(tag) ==
    CASE tag = "Yanked" -> "YANKED"
      [] tag = "NoChanges" -> "NO CHANGES"

\* impl Display for Version: semver writes the canonical text of a version,
\* which every sample version that parses is
Version_fmt(version) == version

\* impl Display for ReleaseDate: the date as <yyyy>-<mm>-<dd>
ReleaseDate_fmt(date) == date

\* impl Display for ReleaseLink: the text of the URI
ReleaseLink_fmt(link) == link

\* CHANGELOG_HEADER, lines 15-21
CHANGELOG_HEADER ==
    <<Heading(1, "Changelog"),
      Paragraph("All notable changes to this project will be documented in this file."),
      Paragraph("The format is based on [Keep a Changelog](https://keepachangelog.com/en/1.1.0/),\nand this project adheres to [Semantic Versioning](https://semver.org/spec/v2.0.0.html).")>>

RECURSIVE fmt_changes(_)
\* "\n\n### {change_group}\n\n{items}" for every group of changes
fmt_changes(changes) ==
    IF changes = <<>> THEN <<>>
    ELSE <<Heading(3, ChangeGroup_fmt(changes[1].group))>>
         \o (IF changes[1].items = <<>> THEN <<>>
             ELSE <<ListOf(changes[1].items)>>)
         \o fmt_changes(Tail(changes))

RECURSIVE fmt_releases(_)
\* lines 99-114
fmt_releases(releases) ==
    IF releases = <<>> THEN <<>>
    ELSE LET release_ == releases[1]
         IN  <<ReleaseHeading(Version_fmt(release_.version),
                              ReleaseDate_fmt(release_.date),
                              IF release_.tag = "" THEN ""
                              ELSE ReleaseTag_fmt(release_.tag))>>
             \o fmt_changes(release_.changes)
             \o fmt_releases(Tail(releases))

RECURSIVE fmt_release_links(_)
\* lines 128-133
fmt_release_links(releases) ==
    IF releases = <<>> THEN <<>>
    ELSE (IF releases[1].link.some
          THEN <<Definition(Version_fmt(releases[1].version),
                            ReleaseLink_fmt(releases[1].link.value))>>
          ELSE <<>>)
         \o fmt_release_links(Tail(releases))

\* Changelog::to_string
fmt(changelog_) ==
    CHANGELOG_HEADER
    \o <<Heading(2, "[Unreleased]")>>
    \o fmt_changes(changelog_.unreleased.changes)
    \o fmt_releases(changelog_.releases)
    \o (IF changelog_.unreleased.link.some
        THEN <<Definition("unreleased",
                          ReleaseLink_fmt(changelog_.unreleased.link.value))>>
        ELSE <<>>)
    \o fmt_release_links(changelog_.releases)

(***************************************************************************)
(* Changes::add, Unreleased::add and Changelog::promote_unreleased.        *)
(***************************************************************************)
\* Changelog::default
DefaultChangelog ==
    [unreleased |-> [changes |-> <<>>, link |-> None], releases |-> <<>>]

\* Changes::add that puts a group it has not seen before the others
Changes_add_new_group_first(changes, change_group_, item) ==
    IF \E i \in 1..Len(changes) : changes[i].group = change_group_
    THEN LET i == CHOOSE i \in 1..Len(changes) : changes[i].group = change_group_
         IN  [changes EXCEPT ![i].items = Append(@, item)]
    ELSE <<[group |-> change_group_, items |-> <<item>>]>> \o changes

\* Changes::add: self.0.entry(change_group).or_default().push(item)
Changes_add(changes, change_group_, item) ==
    IF \E i \in 1..Len(changes) : changes[i].group = change_group_
    THEN LET i == CHOOSE i \in 1..Len(changes) : changes[i].group = change_group_
         IN  [changes EXCEPT ![i].items = Append(@, item)]
    ELSE Append(changes, [group |-> change_group_, items |-> <<item>>])

\* Unreleased::add
Unreleased_add(changelog_, change_group_, item) ==
    [changelog_ EXCEPT !.unreleased.changes = Changes_add(@, change_group_, item)]

\* self.releases.0.contains_key(version)
contains_key(releases, version) ==
    \E i \in 1..Len(releases) : releases[i].version = version

RECURSIVE extend(_, _)
\* IndexMap::extend: insert every entry in turn
extend(releases, more) ==
    IF more = <<>> THEN releases
    ELSE extend(releases_insert(releases, more[1]), Tail(more))

\* PromoteOptions::new(version) with with_date, with_tag and with_link
PromoteOptions(version, date, tag, link) ==
    [version |-> version, date |-> date, tag |-> tag, link |-> link]

\* promote_unreleased without the check that the version is new
promote_unreleased_unchecked(changelog_, promote_options, today) ==
    LET new_release ==
            [version |-> promote_options.version,
             date |-> IF promote_options.date.some
                      THEN promote_options.date.value ELSE today,
             tag |-> promote_options.tag,
             link |-> promote_options.link,
             changes |-> changelog_.unreleased.changes]
    IN  [changelog |->
             [unreleased |-> [changelog_.unreleased EXCEPT !.changes = <<>>],
              releases |-> extend(<<new_release>>, changelog_.releases)],
         result |-> Ok("unit")]

\* promote_unreleased that puts the new release after the others
promote_unreleased_last(changelog_, promote_options, today) ==
    IF contains_key(changelog_.releases, promote_options.version)
    THEN [changelog |-> changelog_,
          result |-> Err("PromoteUnreleasedError")]
    ELSE [changelog |->
              [unreleased |-> [changelog_.unreleased EXCEPT !.changes = <<>>],
               releases |->
                   Append(changelog_.releases,
                          [version |-> promote_options.version,
                           date |-> IF promote_options.date.some
                                    THEN promote_options.date.value ELSE today,
                           tag |-> promote_options.tag,
                           link |-> promote_options.link,
                           changes |-> changelog_.unreleased.changes])],
          result |-> Ok("unit")]

\* promote_unreleased that writes the unreleased changes into the release
\* if the version is released already
promote_unreleased_overwriting(changelog_, promote_options, today) ==
    LET new_release ==
            [version |-> promote_options.version,
             date |-> IF promote_options.date.some
                      THEN promote_options.date.value ELSE today,
             tag |-> promote_options.tag,
             link |-> promote_options.link,
             changes |-> changelog_.unreleased.changes]
    IN  [changelog |->
             [unreleased |-> [changelog_.unreleased EXCEPT !.changes = <<>>],
              releases |->
                  IF contains_key(changelog_.releases, promote_options.version)
                  THEN releases_insert(changelog_.releases, new_release)
                  ELSE extend(<<new_release>>, changelog_.releases)],
         result |-> Ok("unit")]

\* Changelog::promote_unreleased; today is what ReleaseDate::today returns
promote_unreleased(changelog_, promote_options, today) ==
    IF contains_key(changelog_.releases, promote_options.version)
    THEN [changelog |-> changelog_,
          result |-> Err("PromoteUnreleasedError")]
    ELSE LET new_release ==
                 [version |-> promote_options.version,
                  date |-> IF promote_options.date.some
                           THEN promote_options.date.value ELSE today,
                  tag |-> promote_options.tag,
                  link |-> promote_options.link,
                  changes |-> changelog_.unreleased.changes]
             new_releases == extend(<<new_release>>, changelog_.releases)
         IN  [changelog |->
                  [unreleased |-> [changelog_.unreleased EXCEPT !.changes = <<>>],
                   releases |-> new_releases],
              result |-> Ok("unit")]

(***************************************************************************)
(* The documents the parser is run on.                                     *)
(***************************************************************************)
TitleNode == Heading(1, CHANGELOG_TITLE)
NotableNode == Paragraph(NOTABLE_CHANGES_TEXT)
AboutNode == Paragraph(ABOUT_FORMAT_TEXT)
UnreleasedNode == Heading(2, UNRELEASED_HEADER_TEXT)
OtherParagraph == Paragraph("Not the text that should be here.")
Link(identifier) == Definition(identifier, "https://e.x/a")

\* the nodes of the bodies: release headings, change groups, lists, links
CoreNodes ==
    { ReleaseHeading("1.0.0", "2000-01-01", ""),
      ReleaseHeading("1.0.0", "2001-01-01", "NO CHANGES"),
      ReleaseHeading("2.0.0", "2000-01-01", "NO CHANGES"),
      ReleaseHeading("a.b.c", "2000-01-01", ""),
      Heading(3, "Fixed"), Heading(3, "Added"), Heading(3, "Fixd"),
      List, Link("1.0.0"), Link("2.0.0"), OtherParagraph }

\* all sample nodes
AllNodes ==
    CoreNodes \cup
    { TitleNode, Heading(1, "Chnglg"), NotableNode, AboutNode,
      UnreleasedNode, Heading(2, "UNRELEASED"), Heading(2, "bad header"),
      ReleaseHeading("1.0.0", "2000-01-01", "YANKED"),
      ReleaseHeading("1.0.0", "2000-13-01", ""),
      ReleaseHeading("1.0.0", "2000-01-01", "UNKNOWN TAG"),
      ReleaseHeading("a.b.c", "2000-13-01", "UNKNOWN TAG"),
      ReleaseHeading("1.0.0", "2000-13-01", "UNKNOWN TAG"),
      ReleaseHeading("1.0.0+b1", "2000-01-01", "NO CHANGES"),
      ReleaseHeading("1.0.0", "2000/01/01", "NO CHANGES"),
      Heading(3, "FIXED"), Code,
      Link("unreleased"), Definition("1.0.0", "not a url"), Link("a.b.c") }

\* the four leading sections: each present, present with another text, or
\* absent
Leads ==
    { t \o n \o a \o u :
        t \in {<<TitleNode>>, <<Heading(1, "Chnglg")>>, <<>>},
        n \in {<<NotableNode>>, <<OtherParagraph>>, <<>>},
        a \in {<<AboutNode>>, <<Paragraph(ABOUT_FORMAT_ONE_LINE)>>,
               <<OtherParagraph>>, <<>>},
        u \in {<<UnreleasedNode>>, <<Heading(2, "[Unreleased]")>>,
               <<Heading(2, "bad header")>>, <<>>} }

StandardLead == <<TitleNode, NotableNode, AboutNode, UnreleasedNode>>

Documents ==
    SeqsUpTo(AllNodes, MaxAny)
    \cup {StandardLead \o body : body \in SeqsUpTo(CoreNodes, MaxBody)}
    \cup {lead \o tail : lead \in Leads, tail \in SeqsUpTo(CoreNodes, MaxTail)}

(***************************************************************************)
(* The state machine: parse(contents) step by step, then get_diagnostics   *)
(* on the tree and Changelog::from_str on the same text.                   *)
(***************************************************************************)
P == [pos |-> pos, fuel |-> fuel, events |-> events, panic |-> panic]

\* no call of the Changelog API has been made
NoCall == [op |-> "none"]

Store(p, next_pc) ==
    /\ pos' = p.pos
    /\ fuel' = p.fuel
    /\ events' = p.events
    /\ panic' = p.panic
    /\ pc' = IF p.panic # "" THEN "panicked" ELSE next_pc

\* Parser::new
Init ==
    /\ nodes \in Documents
    /\ doc_length \in ContentLengths(nodes)
    /\ pos = 0
    /\ fuel = FuelInit
    /\ events = <<>>
    /\ panic = ""
    /\ pc = "changelog_file"
    /\ marks = <<>>
    /\ tree = NoTree
    /\ diagnostics = <<>>
    /\ from_str_result = None
    /\ changelog = DefaultChangelog
    /\ call = NoCall
    /\ calls = 0

Rest == UNCHANGED <<nodes, doc_length, tree, diagnostics, from_str_result,
                    changelog, call, calls>>

\* changelog_file, line 556
ChangelogFileOpen ==
    /\ pc = "changelog_file"
    /\ Store(open(P), "title")
    /\ marks' = <<open_mark(P)>>
    /\ Rest

TitleStep ==
    /\ pc = "title"
    /\ Store(title(P), "notable_changes_text")
    /\ UNCHANGED marks /\ Rest

NotableChangesTextStep ==
    /\ pc = "notable_changes_text"
    /\ Store(notable_changes_text(P), "about_format_text")
    /\ UNCHANGED marks /\ Rest

AboutFormatTextStep ==
    /\ pc = "about_format_text"
    /\ Store(about_format_text(P), "unreleased")
    /\ UNCHANGED marks /\ Rest

\* unreleased, lines 638-654
UnreleasedPresent ==
    /\ pc = "unreleased"
    /\ unreleased_present(P)
    /\ Store(unreleased_header(unreleased_tested(P)), "unreleased_loop")
    /\ marks' = Append(marks, open_mark(unreleased_tested(P)))
    /\ Rest

\* unreleased, line 671
UnreleasedMissing ==
    /\ pc = "unreleased"
    /\ ~unreleased_present(P)
    /\ Store(unreleased_missing(unreleased_tested(P)), "root_loop")
    /\ UNCHANGED marks /\ Rest

\* unreleased, lines 657-658
UnreleasedChangeGroup ==
    /\ pc = "unreleased_loop"
    /\ block_branch(P) = "change_group"
    /\ Store(change_group(block_tested(P)), "unreleased_loop")
    /\ UNCHANGED marks /\ Rest

\* unreleased, line 665
UnreleasedUnexpected ==
    /\ pc = "unreleased_loop"
    /\ block_branch(P) = "unexpected"
    /\ Store(advance_with_error(block_tested(P),
                 LAMBDA node: "Unexpected markdown - '## " \o UNRELEASED_HEADER_TEXT
                              \o "' should be followed by either a Change Group, Release, or Release Link but was:\n\n"
                              \o to_markdown(node)),
             "unreleased_loop")
    /\ UNCHANGED marks /\ Rest

\* unreleased, lines 656, 663, 669
UnreleasedClose ==
    /\ pc = "unreleased_loop"
    /\ block_branch(P) \in {"exit", "break"}
    /\ Store(close(block_tested(P), marks[Len(marks)], Unreleased), "root_loop")
    /\ marks' = SubSeq(marks, 1, Len(marks) - 1)
    /\ Rest

\* changelog_file, lines 562-563, and release, lines 679-682
RootRelease ==
    /\ pc = "root_loop"
    /\ root_branch(P) = "release"
    /\ Store(release(root_tested(P)),
             IF at(root_tested(P), IsH2) THEN "release_loop" ELSE "root_loop")
    /\ marks' = IF at(root_tested(P), IsH2)
                THEN Append(marks, open_mark(nth(root_tested(P))))
                ELSE marks
    /\ Rest

\* changelog_file, lines 564-565
RootReleaseLink ==
    /\ pc = "root_loop"
    /\ root_branch(P) = "release_link"
    /\ Store(release_link(root_tested(P)), "root_loop")
    /\ UNCHANGED marks /\ Rest

\* changelog_file, lines 567-569
RootUnexpected ==
    /\ pc = "root_loop"
    /\ root_branch(P) = "unexpected"
    /\ Store(advance_with_error(root_tested(P),
                 LAMBDA node: "Unexpected markdown - Expected either a Release Header or Release Link here but found:\n\n"
                              \o to_markdown(node)),
             "root_loop")
    /\ UNCHANGED marks /\ Rest

\* release, lines 685-686
ReleaseChangeGroup ==
    /\ pc = "release_loop"
    /\ block_branch(P) = "change_group"
    /\ Store(change_group(block_tested(P)), "release_loop")
    /\ UNCHANGED marks /\ Rest

\* release, line 693
ReleaseUnexpected ==
    /\ pc = "release_loop"
    /\ block_branch(P) = "unexpected"
    /\ Store(advance_with_error(block_tested(P),
                 LAMBDA node: "Unexpected markdown - Release should be followed by either a Change Group, Release, or Release Link but was:\n\n"
                              \o to_markdown(node)),
             "release_loop")
    /\ UNCHANGED marks /\ Rest

\* release, lines 684, 691, 697
ReleaseClose ==
    /\ pc = "release_loop"
    /\ block_branch(P) \in {"exit", "break"}
    /\ Store(close(block_tested(P), marks[Len(marks)], Release), "root_loop")
    /\ marks' = SubSeq(marks, 1, Len(marks) - 1)
    /\ Rest

\* changelog_file, lines 561, 572
ChangelogFileClose ==
    /\ pc = "root_loop"
    /\ root_branch(P) = "exit"
    /\ Store(close(root_tested(P), marks[1], ChangelogFile), "build_tree")
    /\ marks' = <<>>
    /\ Rest

\* parse, line 71
BuildTree ==
    /\ pc = "build_tree"
    /\ LET built == build_tree(P, doc_length)
       IN  /\ tree' = built.tree
           /\ panic' = built.panic
           /\ pc' = IF built.panic # "" THEN "panicked" ELSE "get_diagnostics"
    /\ UNCHANGED <<nodes, doc_length, pos, fuel, events, marks,
                   diagnostics, from_str_result, changelog, call, calls>>

\* Tree::get_diagnostics on the tree parse returned
GetDiagnostics ==
    /\ pc = "get_diagnostics"
    /\ IF tree.kind = ChangelogFile
       THEN /\ diagnostics' = get_diagnostics(tree)
            /\ pc' = "from_str"
            /\ UNCHANGED panic
       ELSE /\ panic' = "get_diagnostics on a tree that is not a ChangelogFile"
            /\ pc' = "panicked"
            /\ UNCHANGED diagnostics
    /\ UNCHANGED <<nodes, doc_length, pos, fuel, events, marks, tree,
                   from_str_result, changelog, call, calls>>

\* Changelog::from_str on the text of the document
FromStr ==
    /\ pc = "from_str"
    /\ from_str_result' = Some(from_str(nodes))
    /\ pc' = "done"
    /\ UNCHANGED <<nodes, doc_length, pos, fuel, events, panic, marks,
                   tree, diagnostics, changelog, call, calls>>

Next ==
    \/ ChangelogFileOpen
    \/ TitleStep
    \/ NotableChangesTextStep
    \/ AboutFormatTextStep
    \/ UnreleasedPresent
    \/ UnreleasedMissing
    \/ UnreleasedChangeGroup
    \/ UnreleasedUnexpected
    \/ UnreleasedClose
    \/ RootRelease
    \/ RootReleaseLink
    \/ RootUnexpected
    \/ ReleaseChangeGroup
    \/ ReleaseUnexpected
    \/ ReleaseClose
    \/ ChangelogFileClose
    \/ BuildTree
    \/ GetDiagnostics
    \/ FromStr

Spec == Init /\ [][Next]_vars

(***************************************************************************)
(* The state machine of a Changelog value: a changelog that from_str       *)
(* returned, then Unreleased::add, Changelog::promote_unreleased,          *)
(* to_string and from_str on the text to_string returned, in any order.    *)
(* call is the last call made, with its arguments and what it returned.    *)
(***************************************************************************)
\* the changelogs from_str returns on the sample documents
ParsedChangelogs ==
    {from_str(document).value :
        document \in {d \in Documents : from_str(d).ok}}

\* the sample arguments of the calls
ChangeGroups == {"Fixed", "Added"}
SampleVersions == {"1.0.0", "1.0.0+b1"}
\* the date ReleaseDate::today returns
Today == "2001-01-01"

\* the change items of a grouped list of changes
RECURSIVE ItemCount(_)
ItemCount(changes) ==
    IF changes = <<>> THEN 0
    ELSE Len(changes[1].items) + ItemCount(Tail(changes))

ParserIdle ==
    UNCHANGED <<nodes, doc_length, pos, fuel, events, panic, pc, marks,
                tree, diagnostics, from_str_result>>

ApiInit ==
    /\ changelog \in ParsedChangelogs
    /\ call = NoCall
    /\ calls = 0
    /\ nodes = <<>>
    /\ doc_length = 0
    /\ pos = 0
    /\ fuel = FuelInit
    /\ events = <<>>
    /\ panic = ""
    /\ pc = "api"
    /\ marks = <<>>
    /\ tree = NoTree
    /\ diagnostics = <<>>
    /\ from_str_result = None

\* changelog.unreleased.add(change_group, item)
Add ==
    /\ pc = "api"
    /\ calls < MaxCalls
    /\ calls' = calls + 1
    /\ ItemCount(changelog.unreleased.changes) < MaxItems
    /\ \E change_group_ \in ChangeGroups, item \in Items :
          /\ changelog' = Unreleased_add(changelog, change_group_, item)
          /\ call' = [op |-> "add", change_group |-> change_group_,
                       item |-> item]
    /\ ParserIdle

\* changelog.promote_unreleased(&promote_options)
Promote ==
    /\ pc = "api"
    /\ calls < MaxCalls
    /\ calls' = calls + 1
    /\ \E version \in SampleVersions, date \in {None, Some("2000-01-01")},
          with \in {<<"", None>>, <<"Yanked", Some("https://e.x/b")>>} :
          LET promote_options == PromoteOptions(version, date, with[1], with[2])
              promoted == promote_unreleased(changelog, promote_options, Today)
          IN  /\ changelog' = promoted.changelog
              /\ call' = [op |-> "promote_unreleased",
                           promote_options |-> promote_options,
                           result |-> promoted.result]
    /\ ParserIdle

\* changelog.to_string()
Fmt ==
    /\ pc = "api"
    /\ calls < MaxCalls
    /\ calls' = calls + 1
    /\ call' = [op |-> "to_string", text |-> fmt(changelog)]
    /\ UNCHANGED changelog
    /\ ParserIdle

\* the text to_string returned, parsed: text.parse::<Changelog>()
Reparse ==
    /\ pc = "api"
    /\ call.op = "to_string"
    /\ call' = [op |-> "from_str", text |-> call.text,
                 result |-> from_str(call.text)]
    /\ UNCHANGED <<changelog, calls>>
    /\ ParserIdle

ApiNext ==
    \/ Add
    \/ Promote
    \/ Fmt
    \/ Reparse

ApiSpec == ApiInit /\ [][ApiNext]_vars

(***************************************************************************)
(* The state machine of the parser under any grammar: open, close,         *)
(* advance, capture_missing_node and expect called in any order that       *)
(* closes what it opened and advances over every node, then build_tree,    *)
(* get_diagnostics and from_str as above.  marks are the marks of the      *)
(* trees that are open.                                                    *)
(***************************************************************************)
UnitNodes == {TitleNode, UnreleasedNode}

\* the call of expect in title, lines 578-586
expect_title(p) ==
    expect(p,
           LAMBDA node: node.text = CHANGELOG_TITLE,
           LAMBDA node: "Expected '# " \o CHANGELOG_TITLE \o "' but found '# "
                        \o node.text \o "'")

\* the call of expect in unreleased, lines 644-652
expect_unreleased_header(p) ==
    expect(p,
           LAMBDA node: UNRELEASED_HEADER_REGEX(node.text),
           LAMBDA node: "Expected '## " \o UNRELEASED_HEADER_TEXT
                        \o "' but found '" \o to_markdown(node) \o "'")

UnitInit ==
    /\ nodes \in SeqsUpTo(UnitNodes, MaxUnitNodes)
    /\ doc_length = DocLength(nodes)
    /\ pos = 0
    /\ fuel = FuelInit
    /\ events = <<>>
    /\ panic = ""
    /\ pc = "unit"
    /\ marks = <<>>
    /\ tree = NoTree
    /\ diagnostics = <<>>
    /\ from_str_result = None
    /\ changelog = DefaultChangelog
    /\ call = NoCall
    /\ calls = 0

UnitRest ==
    UNCHANGED <<nodes, doc_length, tree, diagnostics, from_str_result,
                changelog, calls>>

\* the events a step may add leave room to close the open trees
Room(added) == Len(events) + added + Len(marks) <= MaxEvents

\* Parser::open
UnitOpen ==
    /\ pc = "unit"
    /\ events = <<>> \/ marks # <<>>
    /\ Room(2)
    /\ Store(open(P), "unit")
    /\ marks' = Append(marks, open_mark(P))
    /\ call' = [op |-> "open"]
    /\ UnitRest

\* Parser::close of the tree opened last; the root is a ChangelogFile and
\* is closed at the end of the input
UnitClose ==
    /\ pc = "unit"
    /\ marks # <<>>
    /\ IF Len(marks) = 1
       THEN /\ eof(P)
            /\ Store(close(P, marks[1], ChangelogFile), "build_tree")
       ELSE \E kind \in {Title} :
                Store(close(P, marks[Len(marks)], kind), "unit")
    /\ marks' = SubSeq(marks, 1, Len(marks) - 1)
    /\ call' = [op |-> "close"]
    /\ UnitRest

\* Parser::advance
UnitAdvance ==
    /\ pc = "unit"
    /\ marks # <<>>
    /\ ~eof(P)
    /\ Room(1)
    /\ Store(advance(P), "unit")
    /\ call' = [op |-> "advance"]
    /\ UNCHANGED marks /\ UnitRest

\* Parser::capture_missing_node
UnitCaptureMissingNode ==
    /\ pc = "unit"
    /\ marks # <<>>
    /\ Room(3)
    /\ Store(capture_missing_node(P, MISSING_TITLE), "unit")
    /\ call' = [op |-> "capture_missing_node"]
    /\ UNCHANGED marks /\ UnitRest

\* Parser::expect, with the test and the message of title or of unreleased
UnitExpect ==
    /\ pc = "unit"
    /\ marks # <<>>
    /\ Room(3)
    /\ \E test \in {"title", "unreleased"} :
          /\ Store(IF test = "title" THEN expect_title(P)
                   ELSE expect_unreleased_header(P), "unit")
          /\ call' = [op |-> "expect", test |-> test]
    /\ UNCHANGED marks /\ UnitRest

UnitNext ==
    \/ UnitOpen
    \/ UnitClose
    \/ UnitAdvance
    \/ UnitCaptureMissingNode
    \/ UnitExpect
    \/ BuildTree
    \/ GetDiagnostics
    \/ FromStr

UnitSpec == UnitInit /\ [][UnitNext]_vars

(***************************************************************************)
(* Properties.                                                             *)
(***************************************************************************)
\* parse has returned and get_diagnostics and from_str have run
Done == pc = "done"

Messages == SeqMap(LAMBDA d: d.message, diagnostics)

\* a child that is an Error subtree holding exactly one Dummy
IsDummyError(child, message) ==
    /\ child.c = "Tree"
    /\ child.tree.kind = Error(message)
    /\ Len(child.tree.children) = 1
    /\ child.tree.children[1].c = "Dummy"

\* a child that is an Error subtree holding exactly the i-th node
IsMarkdownError(child, i) ==
    /\ child.c = "Tree"
    /\ child.tree.kind.k = "Error"
    /\ child.tree.children = <<Markdown(i)>>

\* C1: for every document parse returns a tree whose root is ChangelogFile
\* and no assertion of the parser or of build_tree fails on the way (advance
\* at end of input, the fuel check of nth, a pop of the empty stack, a stack
\* or a node left over at the end of build_tree).
C1_ParseTotal ==
    /\ panic = ""
    /\ pc # "panicked"
    /\ pc \in {"get_diagnostics", "from_str", "done"} => tree.kind = ChangelogFile

C1_Witness ==
    /\ Done
    /\ Len(nodes) > 4
    /\ tree.kind = ChangelogFile
    /\ diagnostics # <<>>

\* C2: the empty document yields exactly the four diagnostics missing Title,
\* missing NotableChanges, missing AboutFormat, missing Unreleased, in this
\* order, and the root has exactly four children, each an Error subtree
\* holding one Dummy.
C2_EmptyDocument ==
    (Done /\ nodes = <<>>) =>
        /\ Messages = <<MISSING_TITLE, MISSING_NOTABLE_CHANGES,
                        MISSING_ABOUT_FORMAT, MISSING_UNRELEASED>>
        /\ Len(tree.children) = 4
        /\ IsDummyError(tree.children[1], MISSING_TITLE)
        /\ IsDummyError(tree.children[2], MISSING_NOTABLE_CHANGES)
        /\ IsDummyError(tree.children[3], MISSING_ABOUT_FORMAT)
        /\ IsDummyError(tree.children[4], MISSING_UNRELEASED)

C2_Witness == Done /\ nodes = <<>> /\ Len(diagnostics) = 4

(***************************************************************************)
(* What a well-formed document is, stated on the nodes of the document and *)
(* not on what the parser makes of them.                                   *)
(***************************************************************************)
IsReleaseHeading(node) ==
    /\ node.type = "Heading" /\ node.depth = 2
    /\ RELEASE_HEADER_REGEX(node)

WellFormedReleaseHeading(node) ==
    /\ IsReleaseHeading(node)
    /\ ReleaseVersion_from_str(node.version).ok
    /\ ReleaseDate_from_str(node.date).ok
    /\ node.tag # "" => ReleaseTag_from_str(node.tag).ok

WellFormedGroupHeading(node) ==
    /\ node.type = "Heading" /\ node.depth = 3
    /\ ChangeGroup_from_str(node.text).ok

IsVersionedLink(node) ==
    /\ node.type = "Definition"
    /\ ReleaseLink_from_str(node.url).ok
    /\ to_lowercase(node.text) # to_lowercase(UNRELEASED_HEADER_TEXT)
    /\ ReleaseVersion_from_str(node.text).ok

WellFormedLink(node) ==
    /\ node.type = "Definition"
    /\ ReleaseLink_from_str(node.url).ok
    /\ \/ to_lowercase(node.text) = to_lowercase(UNRELEASED_HEADER_TEXT)
       \/ ReleaseVersion_from_str(node.text).ok

\* a node that ends a block: a depth-2 heading or a link definition
EndsBlock(node) ==
    \/ node.type = "Heading" /\ node.depth = 2
    \/ node.type = "Definition"

\* the index of the node that opened the block the i-th node lies in: the
\* nearest depth-2 heading or link definition before it, 0 if there is none
BlockStart(i) ==
    LET S == {j \in 1..(i - 1) : EndsBlock(nodes[j])}
    IN  IF S = {} THEN 0 ELSE CHOOSE j \in S : \A l \in S : l <= j

\* the nodes after the first `lead` nodes are releases and links in the
\* format of the changelog, with nothing the validation objects to
WellFormedBody(lead) ==
    \A i \in (lead + 1)..Len(nodes) :
        LET node == nodes[i]
        IN  /\ \/ WellFormedReleaseHeading(node)
               \/ WellFormedGroupHeading(node)
               \/ node.type = "List"
               \/ WellFormedLink(node)
            /\ node.type = "List" =>
                   WellFormedGroupHeading(nodes[i - 1])
            /\ WellFormedGroupHeading(node) =>
                   /\ i < Len(nodes) /\ nodes[i + 1].type = "List"
                   /\ BlockStart(i) > 0
                   /\ nodes[BlockStart(i)].type = "Heading"
                   /\ \A j \in (BlockStart(i) + 1)..(i - 1) :
                          WellFormedGroupHeading(nodes[j]) =>
                              ChangeGroup_from_str(nodes[j].text)
                                  # ChangeGroup_from_str(node.text)
            /\ WellFormedReleaseHeading(node) =>
                   /\ \/ ReleaseTag_from_str(node.tag).value = "NoChanges"
                      \/ i < Len(nodes) /\ WellFormedGroupHeading(nodes[i + 1])
                   /\ \A j \in (lead + 1)..(i - 1) :
                          IsReleaseHeading(nodes[j]) =>
                              nodes[j].version # node.version
            /\ IsVersionedLink(node) =>
                   /\ \E j \in (lead + 1)..Len(nodes) :
                          /\ IsReleaseHeading(nodes[j])
                          /\ nodes[j].version = node.text
                   /\ \A j \in (lead + 1)..(i - 1) :
                          IsVersionedLink(nodes[j]) =>
                              nodes[j].text # node.text

RemoveAt(s, k) == SubSeq(s, 1, k - 1) \o SubSeq(s, k + 1, Len(s))

\* the document is a well-formed changelog from which the k-th leading
\* section was removed
MissingSection(k) ==
    /\ Len(nodes) >= 3
    /\ SubSeq(nodes, 1, 3) = RemoveAt(StandardLead, k)
    /\ WellFormedBody(3)

SectionKind(k) ==
    CASE k = 1 -> Title [] k = 2 -> NotableChanges
      [] k = 3 -> AboutFormat [] OTHER -> Unreleased

SectionMissingMessage(k) ==
    CASE k = 1 -> MISSING_TITLE [] k = 2 -> MISSING_NOTABLE_CHANGES
      [] k = 3 -> MISSING_ABOUT_FORMAT [] OTHER -> MISSING_UNRELEASED

\* the parser is about to parse the k-th leading section and the section is
\* not at the cursor
SectionAbsent(k) ==
    LET node == token(P)
    IN  CASE k = 1 -> /\ pc = "title"
                      /\ ~(node.type = "Heading" /\ node.depth = 1)
          [] k = 2 -> /\ pc = "notable_changes_text"
                      /\ \/ node.type # "Paragraph"
                         \/ node.text \in {ABOUT_FORMAT_TEXT, ABOUT_FORMAT_ONE_LINE}
          [] k = 3 -> /\ pc = "about_format_text"
                      /\ node.type # "Paragraph"
          [] OTHER -> /\ pc = "unreleased"
                      /\ \/ ~(node.type = "Heading" /\ node.depth = 2)
                         \/ IsReleaseHeading(node)

\* a subtree without an Error in it
Clean(child) ==
    /\ child.c = "Tree"
    /\ child.tree.kind.k # "Error"
    /\ \A i \in DOMAIN tree_iter(child.tree) :
           tree_iter(child.tree)[i].kind.k # "Error"

\* C3: when one of the four leading sections (Title, NotableChanges,
\* AboutFormat, Unreleased) is absent, its parser emits exactly one Error
\* subtree holding one Dummy and leaves the cursor where it was; the
\* sections present after it are parsed as their own clean subtrees, and a
\* document that misses exactly one leading section yields exactly one
\* diagnostic.
C3_MissingSection ==
    [][ /\ \A k \in 1..4 :
               SectionAbsent(k) =>
                   /\ pos' = pos
                   /\ events' = events \o <<OpenEvent(Error(SectionMissingMessage(k))),
                                            MissingEvent, CloseEvent>>
        /\ \A k \in 1..4 :
               (Done /\ MissingSection(k))' =>
                   /\ Messages' = <<SectionMissingMessage(k)>>
                   /\ Len(tree'.children) >= 4
                   /\ IsDummyError(tree'.children[k], SectionMissingMessage(k))
                   /\ \A j \in 1..Len(tree'.children) :
                          j # k => Clean(tree'.children[j])
                   /\ \A j \in 1..4 :
                          j # k => tree'.children[j].tree.kind = SectionKind(j)
      ]_vars

C3_Witness ==
    /\ Done
    /\ \E k \in 1..4 : MissingSection(k) /\ Len(nodes) > 3
    /\ Len(diagnostics) = 1

\* the events a step has added to the log
Added == SubSeq(events', Len(events) + 1, Len(events'))

\* the parser is in one of the three loops with a node at the cursor that is
\* none of the continuations the loop expects
AtUnexpected ==
    LET node == token(P)
    IN  /\ pos < Len(nodes)
        /\ \/ /\ pc = "root_loop"
              /\ ~EndsBlock(node)
           \/ /\ pc \in {"unreleased_loop", "release_loop"}
              /\ ~EndsBlock(node)
              /\ ~(node.type = "Heading" /\ node.depth = 3)

\* the parser is in one of the three loops with a well-formed continuation
\* of the loop at the cursor
AtWellFormed ==
    LET node == token(P)
    IN  /\ pos < Len(nodes)
        /\ \/ /\ pc = "root_loop"
              /\ WellFormedReleaseHeading(node) \/ WellFormedLink(node)
           \/ /\ pc \in {"unreleased_loop", "release_loop"}
              /\ WellFormedGroupHeading(node)
              /\ pos + 1 < Len(nodes)
              /\ nodes[pos + 2].type = "List"

\* in a document that begins with the four leading sections, the i-th node
\* is none of the continuations of the region it lies in
Unexpected(i) ==
    LET node == nodes[i]
        InBlock(j) == nodes[BlockStart(j)].type = "Heading"
    IN  /\ i > 4
        /\ ~(node.type = "Heading" /\ node.depth = 2)
        /\ node.type # "Definition"
        /\ (node.type = "Heading" /\ node.depth = 3) => ~InBlock(i)
        /\ node.type = "List" =>
               ~(/\ nodes[i - 1].type = "Heading" /\ nodes[i - 1].depth = 3
                 /\ InBlock(i - 1))

\* the kinds of the subtrees a clean step opens; a block that is still open
\* has the kind open gave it until close sets it
CleanKinds ==
    {Error(ParserError("Unclosed Event")), ChangeGroup, ChangeGroupList}
    \cup {ChangeGroupHeader(ChangeGroup_from_str(token(P).text).value)}
    \cup {ReleaseHeader(token(P).version, token(P).date,
                        IF token(P).tag = "" THEN ""
                        ELSE ReleaseTag_from_str(token(P).tag).value)}
    \cup {ReleaseLinkVersioned(token(P).text, token(P).url),
          ReleaseLinkUnreleased(token(P).url)}

\* C4: in each repeating region (the root loop, the change-group loop of
\* Unreleased, the change-group loop of Release) a node that is none of the
\* expected continuations is consumed, it alone, as the single Markdown child
\* of a new Error subtree, and the loop is tested again on the next node; a
\* well-formed node that comes later in the region is parsed without an
\* Error.
C4_UnexpectedNode ==
    [][ /\ AtUnexpected =>
               /\ pos' = pos + 1
               /\ pc' = pc
               /\ marks' = marks
               /\ Len(Added) = 3
               /\ Added[1].e = "Open" /\ Added[1].kind.k = "Error"
               /\ Added[2] = AdvanceEvent
               /\ Added[3] = CloseEvent
        /\ AtWellFormed =>
               /\ pos' > pos
               /\ \A i \in 1..Len(Added) :
                      Added[i].e = "Open" => Added[i].kind \in CleanKinds
        /\ (Done /\ Len(nodes) >= 4 /\ SubSeq(nodes, 1, 4) = StandardLead)' =>
               \A i \in 5..Len(nodes) :
                   LET in_error ==
                           \E j \in DOMAIN tree_iter(tree') :
                               /\ tree_iter(tree')[j].kind.k = "Error"
                               /\ tree_iter(tree')[j].children = <<Markdown(i)>>
                       well_formed ==
                           \/ WellFormedReleaseHeading(nodes[i])
                           \/ WellFormedGroupHeading(nodes[i])
                           \/ WellFormedLink(nodes[i])
                           \/ nodes[i].type = "List"
                   IN  /\ Unexpected(i) => in_error
                       /\ (~Unexpected(i) /\ well_formed) => ~in_error
      ]_vars

\* an unexpected node in a block and a clean change group after it
C4_Witness ==
    /\ Done
    /\ \E i \in 1..Len(tree.children) :
           /\ tree.children[i].c = "Tree"
           /\ tree.children[i].tree.kind \in {Release, Unreleased}
           /\ Len(tree.children[i].tree.children) = 3
           /\ Clean(tree.children[i].tree.children[1])
           /\ IsMarkdownError(tree.children[i].tree.children[2],
                              tree.children[i].tree.children[2].tree.children[1].index)
           /\ Clean(tree.children[i].tree.children[3])
           /\ tree.children[i].tree.children[3].tree.kind = ChangeGroup

\* the kind of the one subtree release_header is to make of a depth-2
\* heading: the first of version, date and tag that does not parse decides
ExpectedHeaderKind(node) ==
    LET version == ReleaseVersion_from_str(node.version)
        date == ReleaseDate_from_str(node.date)
        tag == ReleaseTag_from_str(node.tag)
    IN  IF ~IsReleaseHeading(node)
        THEN Error("Expected Release Header with the format '[<semver>] - <YYYY>-<MM>-<DD> - [<tag>]' but found '## "
                   \o node.text \o "'")
        ELSE IF ~version.ok
        THEN Error("Invalid release version '" \o node.version \o "' - "
                   \o version.value)
        ELSE IF ~date.ok
        THEN Error("Invalid release date '" \o node.date \o "' - " \o date.value)
        ELSE IF node.tag # "" /\ ~tag.ok
        THEN Error("Invalid release tag '" \o node.tag \o "' - " \o tag.value)
        ELSE ReleaseHeader(node.version, node.date,
                           IF node.tag = "" THEN "" ELSE tag.value)

\* the child is a subtree of the given kind that begins with a subtree
\* holding exactly the i-th node
BeginsWith(child, kind, i) ==
    /\ child.c = "Tree"
    /\ child.tree.kind = kind
    /\ Len(child.tree.children) > 0
    /\ child.tree.children[1].c = "Tree"
    /\ child.tree.children[1].tree.children = <<Markdown(i)>>

\* C5: release_header consumes exactly one node, the depth-2 heading, and
\* emits exactly one subtree for it: a ReleaseHeader when version, date and
\* tag parse, otherwise one Error that names the first that does not, in the
\* order version, date, tag (or the format of a release header when the
\* heading has not that shape); the change groups that follow are parsed as
\* ChangeGroup subtrees of the same Release.
C5_ReleaseHeader ==
    [][ /\ (pc = "root_loop" /\ pos < Len(nodes)
            /\ token(P).type = "Heading" /\ token(P).depth = 2) =>
               /\ pos' = pos + 1
               /\ pc' = "release_loop"
               /\ Added = <<OpenEvent(Error(ParserError("Unclosed Event"))),
                            OpenEvent(ExpectedHeaderKind(token(P))),
                            AdvanceEvent, CloseEvent>>
        /\ (Done /\ Len(nodes) >= 4 /\ SubSeq(nodes, 1, 4) = StandardLead)' =>
               \A i \in 5..Len(nodes) :
                   (nodes[i].type = "Heading" /\ nodes[i].depth = 2) =>
                       \E r \in 1..Len(tree'.children) :
                           LET release_ == tree'.children[r]
                           IN  /\ BeginsWith(release_, Release, i)
                               /\ release_.tree.children[1].tree.kind
                                      = ExpectedHeaderKind(nodes[i])
                               /\ \A j \in (i + 1)..Len(nodes) :
                                      (/\ nodes[j].type = "Heading"
                                       /\ nodes[j].depth = 3
                                       /\ BlockStart(j) = i) =>
                                          \E g \in 2..Len(release_.tree.children) :
                                              BeginsWith(release_.tree.children[g],
                                                         ChangeGroup, j)
      ]_vars

\* a release whose header is an Error and whose change group is clean
C5_Witness ==
    /\ Done
    /\ \E r \in 1..Len(tree.children) :
           /\ tree.children[r].c = "Tree"
           /\ tree.children[r].tree.kind = Release
           /\ Len(tree.children[r].tree.children) = 2
           /\ tree.children[r].tree.children[1].tree.kind.k = "Error"
           /\ BeginsWith(tree.children[r].tree.children[2], ChangeGroup,
                         Len(nodes) - 1)
           /\ Clean(tree.children[r].tree.children[2])

\* the diagnostics with the given message
DiagnosticsOf(message) ==
    {i \in 1..Len(diagnostics) : diagnostics[i].message = message}

\* the blocks of the tree: the Unreleased and Release children of the root
Blocks ==
    {r \in 1..Len(tree.children) :
        /\ tree.children[r].c = "Tree"
        /\ tree.children[r].tree.kind \in {Release, Unreleased}}

\* the change groups of the r-th child of the root: its ChangeGroup children
GroupsOf(r) ==
    {g \in 1..Len(tree.children[r].tree.children) :
        /\ tree.children[r].tree.children[g].c = "Tree"
        /\ tree.children[r].tree.children[g].tree.kind = ChangeGroup}

\* the first child of the g-th child of the r-th child of the root: of a
\* change group, the subtree made of its heading
HeaderOf(r, g) == tree.children[r].tree.children[g].tree.children[1].tree

\* the change groups of a block whose heading names a change group
HeadedGroupsOf(r) ==
    {g \in GroupsOf(r) : HeaderOf(r, g).kind.k = "ChangeGroupHeader"}

\* the ChangeGroupHeader of the g-th child of block r repeats the kind of an
\* earlier ChangeGroupHeader of the same block
RepeatsGroup(r, g) ==
    \E f \in HeadedGroupsOf(r) :
        f < g /\ HeaderOf(r, f).kind = HeaderOf(r, g).kind

\* the position of the single node a header holds
HeaderPosition(header) == NodePosition(header.children[1].index)

\* C6: for every Release or Unreleased block there is one diagnostic
\* 'Duplicate change group found' for each second or later occurrence of a
\* change-group kind among the ChangeGroupHeader subtrees of the block, at
\* the position of that later header, and none for a first occurrence; the
\* same kind in two different blocks is not a duplicate.
C6_DuplicateChangeGroup ==
    Done =>
        LET repeated == {x \in UNION {{r} \X HeadedGroupsOf(r) : r \in Blocks} :
                            RepeatsGroup(x[1], x[2])}
        IN  /\ {diagnostics[i].position : i \in DiagnosticsOf(DUPLICATE_CHANGE_GROUP)}
                   = {HeaderPosition(HeaderOf(x[1], x[2])) : x \in repeated}
            /\ Cardinality(DiagnosticsOf(DUPLICATE_CHANGE_GROUP))
                   = Cardinality(repeated)

\* a block with the same change group twice
C6_Witness ==
    /\ Done
    /\ Cardinality(DiagnosticsOf(DUPLICATE_CHANGE_GROUP)) = 1
    /\ \E r \in Blocks : \E g \in HeadedGroupsOf(r) : RepeatsGroup(r, g)

\* the Release children of the root
Releases == {r \in Blocks : tree.children[r].tree.kind = Release}

\* the first child of a block: the subtree made of its heading
BlockHeader(r) == tree.children[r].tree.children[1].tree

\* the release is tagged NoChanges: its header is a ReleaseHeader with the tag
TaggedNoChanges(r) ==
    /\ BlockHeader(r).kind.k = "ReleaseHeader"
    /\ BlockHeader(r).kind.tag = "NoChanges"

\* where a block starts: the start of its heading
BlockStartPoint(r) == NodePosition(BlockHeader(r).children[1].index).start

\* C7: there is a diagnostic 'Release must have at least one change group
\* listed or be tagged with [NO CHANGES]' for a Release block exactly when
\* the release has zero change groups and is not tagged NoChanges; there is
\* none for the Unreleased block, for a release tagged NoChanges, or for a
\* release that has at least one change group.  A change group is one of the
\* six categories: a heading that names none of them lists no change group.
C7_ReleaseWithoutChangeGroups ==
    Done =>
        LET without == {r \in Releases :
                           HeadedGroupsOf(r) = {} /\ ~TaggedNoChanges(r)}
        IN  /\ {diagnostics[i].position.start : i \in DiagnosticsOf(NO_CHANGE_GROUPS)}
                   = {BlockStartPoint(r) : r \in without}
            /\ Cardinality(DiagnosticsOf(NO_CHANGE_GROUPS))
                   = Cardinality(without)

\* a release without change groups and without tag, a release tagged
\* NoChanges, and the diagnostic for the first only
C7_Witness ==
    /\ Done
    /\ \E r \in Releases : HeadedGroupsOf(r) = {} /\ ~TaggedNoChanges(r)
    /\ \E r \in Releases : HeadedGroupsOf(r) = {} /\ TaggedNoChanges(r)
    /\ Cardinality(DiagnosticsOf(NO_CHANGE_GROUPS)) = 1

\* the releases whose header is a ReleaseHeader, and the versioned links
DeclaredReleases ==
    {r \in Releases : BlockHeader(r).kind.k = "ReleaseHeader"}

VersionedLinks ==
    {r \in 1..Len(tree.children) :
        /\ tree.children[r].c = "Tree"
        /\ tree.children[r].tree.kind.k = "ReleaseLink"
        /\ tree.children[r].tree.kind.type = "Versioned"}

LinkVersion(r) == tree.children[r].tree.kind.version
LinkPosition(r) == NodePosition(tree.children[r].tree.children[1].index)

\* the r-th child of the root declares, or links, a version that an earlier
\* release declares, or an earlier link links
RepeatsRelease(r) ==
    \E q \in DeclaredReleases :
        q < r /\ BlockHeader(q).kind.version = BlockHeader(r).kind.version

RepeatsLink(r) ==
    \E q \in VersionedLinks : q < r /\ LinkVersion(q) = LinkVersion(r)

\* the versions the tree names
Versions ==
    {BlockHeader(r).kind.version : r \in DeclaredReleases}
    \cup {LinkVersion(r) : r \in VersionedLinks}

\* C8: for every release version there is one diagnostic 'Duplicate release
\* version' for each second or later ReleaseHeader with the version and one
\* diagnostic 'Duplicate release version link' for each second or later
\* versioned ReleaseLink with the version, each at the position of the later
\* occurrence; the first header and the first link of a version have none.
C8_DuplicateVersion ==
    Done =>
        \A version \in Versions :
            LET headers == {r \in DeclaredReleases :
                               /\ BlockHeader(r).kind.version = version
                               /\ RepeatsRelease(r)}
                links == {r \in VersionedLinks :
                             LinkVersion(r) = version /\ RepeatsLink(r)}
                of_headers == DiagnosticsOf(DuplicateVersionMessage(version))
                of_links == DiagnosticsOf(DuplicateLinkMessage(version))
            IN  /\ {diagnostics[i].position : i \in of_headers}
                       = {HeaderPosition(BlockHeader(r)) : r \in headers}
                /\ Cardinality(of_headers) = Cardinality(headers)
                /\ {diagnostics[i].position : i \in of_links}
                       = {LinkPosition(r) : r \in links}
                /\ Cardinality(of_links) = Cardinality(links)

\* a version declared twice, with a link
C8_Witness ==
    /\ Done
    /\ \E r \in DeclaredReleases : RepeatsRelease(r)
    /\ VersionedLinks # {}
    /\ DiagnosticsOf(DuplicateVersionMessage("1.0.0")) # {}

\* no ReleaseHeader declares the version of the link
Undeclared(r) ==
    \A q \in DeclaredReleases : BlockHeader(q).kind.version # LinkVersion(r)

OrphanPositions ==
    {diagnostics[i].position : i \in DiagnosticsOf(ORPHAN_LINK)}

\* C9 as claimed: there is a diagnostic 'Release link version does not
\* match any listed releases' for any versioned release link whose version no
\* ReleaseHeader of the document declares, and for no link whose version some
\* ReleaseHeader declares, before or after the link.
C9_OrphanLinkEveryLink ==
    Done =>
        \A r \in VersionedLinks :
            LinkPosition(r) \in OrphanPositions <=> Undeclared(r)

\* C9 as amended: there is one diagnostic 'Release link version does not
\* match any listed releases' for each version that a versioned release link
\* names and no ReleaseHeader declares, at the position of the first link of
\* the version, and none for a link whose version some ReleaseHeader
\* declares, before or after the link.
C9_OrphanLinkFirstLink ==
    Done =>
        /\ \A r \in VersionedLinks :
               LinkPosition(r) \in OrphanPositions
                   <=> (Undeclared(r) /\ ~RepeatsLink(r))
        /\ Cardinality(DiagnosticsOf(ORPHAN_LINK))
               = Cardinality({r \in VersionedLinks :
                                 Undeclared(r) /\ ~RepeatsLink(r)})

\* a link before the release that declares its version, and a link of a
\* version that no release declares
C9_Witness ==
    /\ Done
    /\ \E r \in VersionedLinks :
           /\ ~Undeclared(r)
           /\ \E q \in DeclaredReleases :
                  q > r /\ BlockHeader(q).kind.version = LinkVersion(r)
    /\ \E r \in VersionedLinks :
           Undeclared(r) /\ LinkPosition(r) \in OrphanPositions

\* C10: for every text, Changelog::from_str returns a Changelog exactly when
\* get_diagnostics(parse(text)) is empty.
C10_FromStrIffNoDiagnostics ==
    Done => (from_str_result.value.ok <=> diagnostics = <<>>)

(***************************************************************************)
(* Properties of the Changelog value (ApiSpec).                            *)
(***************************************************************************)
\* C11: a changelog that from_str returned, written with to_string and
\* parsed again, is returned by from_str as an equal changelog: the same
\* unreleased changes and link, the same releases in the same order with
\* the same version, date, tag, link and grouped items.
C11_RoundTrip ==
    (call.op = "from_str" /\ changelog \in ParsedChangelogs) =>
        /\ call.text = fmt(changelog)
        /\ call.result.ok
        /\ call.result.value.unreleased = changelog.unreleased
        /\ call.result.value.releases = changelog.releases

\* C11: the text of a parsed changelog with unreleased changes, or with a
\* tagged and linked release, has been parsed again
C11_Witness ==
    /\ call.op = "from_str"
    /\ changelog \in ParsedChangelogs
    /\ \/ /\ changelog.unreleased.changes # <<>>
          /\ changelog.releases # <<>>
       \/ \E i \in 1..Len(changelog.releases) :
            /\ changelog.releases[i].tag # ""
            /\ changelog.releases[i].link.some

\* the step is a call of promote_unreleased
Promoted == call'.op = "promote_unreleased" /\ calls' = calls + 1

\* the version is a key of the releases
IsReleased(version) ==
    \E i \in 1..Len(changelog.releases) : changelog.releases[i].version = version

\* C12: promote_unreleased with a version that is already a key of the
\* releases returns an error and leaves the changelog as it was: the
\* releases, the unreleased changes and the unreleased link.
C12_PromoteExistingVersion ==
    [][(Promoted /\ IsReleased(call'.promote_options.version)) =>
          /\ ~call'.result.ok
          /\ changelog'.releases = changelog.releases
          /\ changelog'.unreleased.changes = changelog.unreleased.changes
          /\ changelog'.unreleased.link = changelog.unreleased.link]_vars

\* C12: promote_unreleased has failed on a changelog with unreleased changes
C12_Witness ==
    /\ call.op = "promote_unreleased"
    /\ ~call.result.ok
    /\ IsReleased(call.promote_options.version)
    /\ changelog.unreleased.changes # <<>>

\* C13: promote_unreleased with a version that is no key of the releases
\* succeeds; afterwards the unreleased changes are empty, the first release
\* has the given version, tag and link and the unreleased changes from
\* before the call, and the previous releases follow it unchanged.
C13_PromoteNewVersion ==
    [][(Promoted /\ ~IsReleased(call'.promote_options.version)) =>
          /\ call'.result.ok
          /\ changelog'.unreleased.changes = <<>>
          /\ Len(changelog'.releases) = Len(changelog.releases) + 1
          /\ changelog'.releases[1].version = call'.promote_options.version
          /\ changelog'.releases[1].tag = call'.promote_options.tag
          /\ changelog'.releases[1].link = call'.promote_options.link
          /\ changelog'.releases[1].changes = changelog.unreleased.changes
          /\ Tail(changelog'.releases) = changelog.releases]_vars

\* C13: unreleased changes have been promoted to a release in front of
\* another release
C13_Witness ==
    /\ call.op = "promote_unreleased"
    /\ call.result.ok
    /\ Len(changelog.releases) >= 2
    /\ changelog.releases[1].version = call.promote_options.version
    /\ changelog.releases[1].changes # <<>>

\* the groups of a grouped list of changes, in its order
GroupsIn(changes) == [i \in 1..Len(changes) |-> changes[i].group]

\* the items of a group of a grouped list of changes
ItemsIn(changes, group) ==
    IF \E i \in 1..Len(changes) : changes[i].group = group
    THEN changes[CHOOSE i \in 1..Len(changes) : changes[i].group = group].items
    ELSE <<>>

\* the change group headings of the unreleased section of a text
RECURSIVE UnreleasedHeadings(_, _)
UnreleasedHeadings(text, i) ==
    IF i > Len(text) \/ text[i].type \notin {"Heading", "List"}
       \/ (text[i].type = "Heading" /\ text[i].depth # 3)
    THEN <<>>
    ELSE (IF text[i].type = "Heading" THEN <<text[i].text>> ELSE <<>>)
         \o UnreleasedHeadings(text, i + 1)

\* C14: an add of an item to a group leaves the groups in their order, with
\* the group behind them if it is new, each at most once; it puts the item
\* behind the items of the group and changes the items of no other group;
\* to_string writes the groups in that order.
C14_AddKeepsInsertionOrder ==
    [][(call'.op = "add" /\ calls' = calls + 1) =>
          LET before == changelog.unreleased.changes
              after == changelog'.unreleased.changes
              group == call'.change_group
          IN  /\ GroupsIn(after) =
                    IF \E i \in 1..Len(before) : before[i].group = group
                    THEN GroupsIn(before)
                    ELSE Append(GroupsIn(before), group)
              /\ \A i, j \in 1..Len(after) :
                    after[i].group = after[j].group => i = j
              /\ ItemsIn(after, group) =
                    Append(ItemsIn(before, group), call'.item)
              /\ \A g \in ChangeGroups \ {group} :
                    ItemsIn(after, g) = ItemsIn(before, g)
              /\ UnreleasedHeadings(fmt(changelog'), 5) = GroupsIn(after)]_vars

\* C14: items have been added to Fixed, then Added, then Fixed again
C14_Witness ==
    /\ call.op = "add"
    /\ GroupsIn(changelog.unreleased.changes) = <<"Fixed", "Added">>
    /\ ItemsIn(changelog.unreleased.changes, "Fixed") = <<"y", "x">>

(***************************************************************************)
(* Properties of the tree (Spec).                                          *)
(***************************************************************************)
\* the Markdown and Dummy children of the tree, in document order
Leaves == SelectSeq(child_iter(tree), LAMBDA child : child.c # "Tree")

\* the leaf before the k-th that is a Markdown child, 0 if there is none
RECURSIVE AdvancedBefore(_)
AdvancedBefore(k) ==
    IF k = 1 THEN 0
    ELSE IF Leaves[k - 1].c = "Markdown" THEN k - 1
    ELSE AdvancedBefore(k - 1)

Min(a, b) == IF a < b THEN a ELSE b

\* C15: a Dummy child has a zero-width position: line 1, column 1, offset
\* 0 if no node was advanced before it, else the line after the end of the
\* node advanced last, column 1, and the offset after the end of that
\* node, or the length of the document if that is less.  Its offset never
\* exceeds the length of the document.
C15_DummyPosition ==
    Done =>
        \A k \in 1..Len(Leaves) :
            Leaves[k].c = "Dummy" =>
                LET dummy == Leaves[k].position
                    before == AdvancedBefore(k)
                    end == NodePosition(Leaves[before].index).end
                IN  /\ dummy.start = dummy.end
                    /\ dummy.start.offset <= doc_length
                    /\ IF before = 0
                       THEN dummy.start = Point(1, 1, 0)
                       ELSE dummy.start =
                                Point(end.line + 1, 1,
                                      Min(end.offset + 1, doc_length))

\* C15: a Dummy child follows the last node of a text that ends with that
\* node, and another Dummy child stands before any node
C15_Witness ==
    /\ Done
    /\ \E k \in 1..Len(Leaves) :
          /\ Leaves[k].c = "Dummy"
          /\ AdvancedBefore(k) # 0
          /\ Leaves[k].position.start.offset = doc_length
          /\ NodePosition(Leaves[AdvancedBefore(k)].index).end.offset = doc_length
    /\ Leaves[1].c = "Dummy"

(***************************************************************************)
(* Properties of the parser under any grammar (UnitSpec).                  *)
(***************************************************************************)
\* the positions of the Markdown and Dummy descendants of the children, in
\* depth-first order
RECURSIVE LeafPositions(_)
LeafPositions(children) ==
    IF children = <<>> THEN <<>>
    ELSE LET child == Head(children)
         IN  (CASE child.c = "Markdown" -> <<NodePosition(child.index)>>
                [] child.c = "Dummy" -> <<child.position>>
                [] OTHER -> LeafPositions(child.tree.children))
             \o LeafPositions(Tail(children))

\* the tree that was built and its subtrees
Subtrees ==
    IF tree = NoTree THEN {}
    ELSE LET inner == tree_iter(tree)
         IN  {tree} \cup {inner[i] : i \in 1..Len(inner)}

\* the nesting depth of the children
RECURSIVE Depth(_)
Depth(children) ==
    IF children = <<>> THEN 0
    ELSE LET child == Head(children)
             rest == Depth(Tail(children))
             here == IF child.c = "Tree" THEN 1 + Depth(child.tree.children)
                     ELSE 1
         IN  IF here > rest THEN here ELSE rest

\* C16: the position of a subtree spans from the start of its first
\* Markdown or Dummy descendant, at any depth, to the end of its last one;
\* it is the sentinel line 1, column 1, offset 0 if it has none.  The
\* diagnostic of an Error subtree that wraps one node is at that node.
C16_TreePosition ==
    /\ \A t \in Subtrees :
          LET leaves == LeafPositions(t.children)
          IN  position(t) =
                  IF leaves = <<>>
                  THEN [start |-> Point(1, 1, 0), end |-> Point(1, 1, 0)]
                  ELSE [start |-> leaves[1].start,
                        end |-> leaves[Len(leaves)].end]
    /\ pc = "done" =>
          \A t \in Subtrees :
              (t.kind.k = "Error" /\ Len(t.children) = 1
               /\ t.children[1].c = "Markdown") =>
                  \E i \in 1..Len(diagnostics) :
                      /\ diagnostics[i].message = t.kind.message
                      /\ diagnostics[i].position =
                            NodePosition(t.children[1].index)

\* C16: the tree has a subtree without descendants, a subtree with two
\* descendants, the first of them two levels down, and an Error subtree
\* that wraps a node
C16_Witness ==
    /\ pc = "done"
    /\ \E t \in Subtrees : t.children = <<>>
    /\ \E t \in Subtrees :
          /\ Depth(t.children) >= 2
          /\ Len(LeafPositions(t.children)) >= 2
          /\ t.children[1].c = "Tree"
    /\ \E t \in Subtrees :
          /\ t.kind.k = "Error"
          /\ Len(t.children) = 1
          /\ t.children[1].c = "Markdown"

\* the test of the call of expect holds at the cursor
TestHolds ==
    /\ pos < Len(nodes)
    /\ IF call'.test = "title" THEN nodes[pos + 1].text = CHANGELOG_TITLE
       ELSE nodes[pos + 1].text \in {"Unreleased", "[Unreleased]"}

\* the events added by the step
AddedEvents == SubSeq(events', Len(events) + 1, Len(events'))

AnyCaseUnreleased(node) ==
    /\ node.type = "Heading" /\ node.depth = 2
    /\ node.text \in {"Unreleased", "[Unreleased]", "UNRELEASED"}

\* C18: a depth-2 heading with the text Unreleased or [Unreleased] in any
\* letter case, at the cursor when the Unreleased section is parsed, is
\* taken as the Unreleased header: the Unreleased block is opened and the
\* heading advanced in an UnreleasedHeader, with no Error around it.
C18_UnreleasedAnyCase ==
    [][(pc = "unreleased" /\ pos < Len(nodes)
        /\ AnyCaseUnreleased(nodes[pos + 1])) =>
          AddedEvents = <<OpenEvent(Error(ParserError("Unclosed Event"))),
                          OpenEvent(UnreleasedHeader),
                          AdvanceEvent, CloseEvent>>]_vars

\* the depth-2 heading that the i-th node stands under, 0 if there is none
RECURSIVE HeadingAbove(_)
HeadingAbove(i) ==
    IF i = 1 THEN 0
    ELSE IF nodes[i - 1].type = "Heading" /\ nodes[i - 1].depth = 2 THEN i - 1
    ELSE HeadingAbove(i - 1)

\* a depth-2 heading that is neither an Unreleased header nor a release
\* header with a valid version, date and tag
BadReleaseHeading(i) ==
    /\ nodes[i].type = "Heading" /\ nodes[i].depth = 2
    /\ ~AnyCaseUnreleased(nodes[i])
    /\ ~WellFormedReleaseHeading(nodes[i])

\* a depth-3 heading under a release that names none of the change groups
BadGroupHeading(i) ==
    /\ nodes[i].type = "Heading" /\ nodes[i].depth = 3
    /\ HeadingAbove(i) # 0
    /\ WellFormedReleaseHeading(nodes[HeadingAbove(i)])
    /\ ~WellFormedGroupHeading(nodes[i])

\* C19: from_str returns an error, and no Changelog, on a text with a
\* depth-2 heading that is neither an Unreleased header nor a well-formed
\* release header, or with a depth-3 heading under a release that is none
\* of the six change groups.
C19_NoPartialChangelog ==
    (Done /\ \E i \in 1..Len(nodes) :
                 BadReleaseHeading(i) \/ BadGroupHeading(i)) =>
        ~from_str_result.value.ok

\* the Markdown children of the tree, as the indexes of their nodes, in
\* depth-first order
MarkdownLeaves ==
    LET leaves == SelectSeq(child_iter(tree), LAMBDA child : child.c = "Markdown")
    IN  [k \in 1..Len(leaves) |-> leaves[k].index]

\* C20: the cursor is the number of Advance events and at most the number
\* of nodes; once parsing is done it is the number of nodes, and the
\* Markdown leaves of the tree are the nodes of the document, each once
\* and in the order of the document.
C20_EveryNodeOnce ==
    /\ pos = Cardinality({k \in 1..Len(events) : events[k] = AdvanceEvent})
    /\ pos <= Len(nodes)
    /\ pc \in {"build_tree", "get_diagnostics", "from_str", "done"} =>
          pos = Len(nodes)
    /\ pc \in {"get_diagnostics", "from_str", "done"} =>
          MarkdownLeaves = [k \in 1..Len(nodes) |-> k]

\* C20: a tree was built of a document of four nodes or more, one of them
\* in an Error subtree and one in a ChangeGroup
C20_Witness ==
    /\ Done
    /\ Len(nodes) >= 4
    /\ \E t \in Subtrees :
          t.kind.k = "Error" /\ t.children = <<Markdown(2)>>
    /\ \E t \in Subtrees :
          t.kind.k = "ChangeGroup" /\ t.children # <<>>

(***************************************************************************)
(* Properties of the loops of the grammar (Spec).                          *)
(***************************************************************************)
\* the loop of changelog_file and the change group loops of unreleased and
\* of release
LoopPcs == {"root_loop", "unreleased_loop", "release_loop"}

\* the steps of parse in the order of changelog_file; a loop of a block
\* ranks above the root loop it returns to
Rank ==
    CASE pc = "changelog_file" -> 7
      [] pc = "title" -> 6
      [] pc = "notable_changes_text" -> 5
      [] pc = "about_format_text" -> 4
      [] pc = "unreleased" -> 3
      [] pc \in {"unreleased_loop", "release_loop"} -> 2
      [] pc = "root_loop" -> 1
      [] OTHER -> 0

\* what is left to parse: the nodes behind the cursor, then the steps
Variant == 3 * (Len(nodes) - pos) + Rank

\* C21: parse terminates: the cursor never moves back or past the last
\* node, and every step of parse decreases the nodes and steps left.  An
\* iteration of the root loop or of a change group loop advances the cursor
\* by a node or more or leaves the loop; a change group loop is left at the
\* end of the input or at a depth-2 heading or link definition, with the
\* cursor where it was, and the root loop then consumes that node.
C21_LoopsAdvance ==
    [][/\ pos' >= pos /\ pos' <= Len(nodes)
       /\ Rank > 0 => Variant' < Variant
       /\ (pc \in LoopPcs /\ pc' = pc) => pos' > pos
       /\ (pc \in {"unreleased_loop", "release_loop"} /\ pc' # pc) =>
             /\ pc' = "root_loop"
             /\ pos' = pos
             /\ (pos = Len(nodes) \/ IsH2(nodes[pos + 1])
                 \/ IsDefinition(nodes[pos + 1]))
       /\ (pc = "root_loop" /\ pos < Len(nodes)) =>
             /\ pos' > pos
             /\ pc' \in {"root_loop", "release_loop"}
       /\ (pc = "root_loop" /\ pos = Len(nodes)) => pc' = "build_tree"]_vars

\* C21: the change group loop of unreleased was left at a release heading
\* behind a change group, and the root loop has consumed the heading
C21_Witness ==
    /\ pc = "release_loop"
    /\ pos = 7
    /\ SubSeq(nodes, 1, 4) = StandardLead
    /\ IsH3(nodes[5]) /\ IsList(nodes[6]) /\ IsH2(nodes[7])

\* the lookaheads made since the last advance, or since the parser was made
Lookaheads == FuelInit - fuel

\* C22: nth is never called without fuel (the parser is never stuck): the
\* fuel is 256 when the parser is made and after every advance, a lookahead
\* takes one, and there are never more than 9 lookaheads without an advance
\* between them, before the first node, between two nodes or at the end of
\* the input.
C22_FuelNeverExhausted ==
    /\ panic # "parser is stuck"
    /\ fuel > 0
    /\ Lookaheads \in 0..9
    /\ pc = "changelog_file" => fuel = 256

\* C22: five lookaheads or more have been made before the first node of a
\* document is advanced, and the parser goes on
C22_Witness ==
    /\ Lookaheads >= 5
    /\ pos = 0 /\ Len(nodes) > 0
    /\ pc \notin {"panicked", "done"}

(***************************************************************************)
(* Properties of the event log (Spec).                                     *)
(***************************************************************************)
\* the frames that are open behind the first i events
OpenFrames(i) ==
    Cardinality({k \in 1..i : events[k].e = "Open"})
    - Cardinality({k \in 1..i : events[k] = CloseEvent})

\* The events from the i-th on, read with the Open events that are not
\* closed yet on a stack: pairs are the pairs of an Open event and the
\* Close event that closes its frame, open the Open events left without
\* one, ok is FALSE if a Close, Advance or Missing event has no open frame
\* around it.
RECURSIVE Brackets(_, _, _)
Brackets(i, stack, pairs) ==
    IF i > Len(events)
    THEN [pairs |-> pairs, open |-> stack, ok |-> TRUE]
    ELSE CASE events[i].e = "Open" ->
                Brackets(i + 1, Append(stack, i), pairs)
           [] events[i].e # "Open" /\ stack = <<>> ->
                [pairs |-> pairs, open |-> stack, ok |-> FALSE]
           [] events[i] = CloseEvent /\ stack # <<>> ->
                Brackets(i + 1, SubSeq(stack, 1, Len(stack) - 1),
                         pairs \cup {<<stack[Len(stack)], i>>})
           [] OTHER -> Brackets(i + 1, stack, pairs)

\* C23: the event log that build_tree is given starts with an Open and
\* ends with a Close that closes the frame of that Open; every Open has
\* exactly one Close behind it that closes its frame, and every Close
\* closes the frame of one Open; every Advance and Missing lies inside an
\* open frame; close has written a kind over the placeholder of every
\* Open, and no subtree of the tree that is built has the kind
\* Error('Unclosed Event').
C23_WellBracketed ==
    /\ pc = "build_tree" =>
          LET read == Brackets(1, <<>>, {})
          IN  /\ events # <<>>
              /\ events[1].e = "Open"
              /\ events[Len(events)] = CloseEvent
              /\ read.ok
              /\ read.open = <<>>
              /\ <<1, Len(events)>> \in read.pairs
              /\ \A pair \in read.pairs : pair[1] < pair[2]
              /\ \A k \in 1..Len(events) :
                    /\ events[k].e = "Open" =>
                          Cardinality({pair \in read.pairs : pair[1] = k}) = 1
                    /\ events[k] = CloseEvent =>
                          Cardinality({pair \in read.pairs : pair[2] = k}) = 1
                    /\ events[k].e = "Open" =>
                          events[k].kind # Error(ParserError("Unclosed Event"))
    /\ Done =>
          \A t \in Subtrees : t.kind # Error(ParserError("Unclosed Event"))

\* C23: build_tree is given an event log with four frames inside each
\* other, a Missing event and an Advance event
C23_Witness ==
    /\ pc = "build_tree"
    /\ \E i \in 1..Len(events) : OpenFrames(i) = 4
    /\ \E i, j \in 1..Len(events) :
          events[i] = MissingEvent /\ events[j] = AdvanceEvent

(***************************************************************************)
(* Properties of the event log under any grammar (UnitSpec).               *)
(***************************************************************************)
\* the events that the step leaves as they are
KeptEvents == {k \in 1..Len(events) : events'[k] = events[k]}

\* C24: a step of the parser removes no event and changes none but an Open
\* event, which stays an Open event.  open appends one Open with the
\* placeholder kind, advance one Advance, capture_missing_node an Open with
\* its message, a Missing and a Close; close(m, kind) writes the kind over
\* the event at index m, which is an Open event, changes no other event
\* and appends one Close.  The cursor moves by the number of Advance events
\* that the step appends, so only advance moves it.
C24_EventLogAppendOnly ==
    [][/\ Len(events') >= Len(events)
       /\ \A k \in 1..Len(events) :
             \/ k \in KeptEvents
             \/ events[k].e = "Open" /\ events'[k].e = "Open"
       /\ pos' - pos =
             Cardinality({k \in 1..Len(AddedEvents) :
                              AddedEvents[k] = AdvanceEvent})
       /\ (pc = "unit" /\ call'.op = "open") =>
             /\ KeptEvents = 1..Len(events)
             /\ AddedEvents = <<OpenEvent(Error(ParserError("Unclosed Event")))>>
       /\ (pc = "unit" /\ call'.op = "advance") =>
             /\ KeptEvents = 1..Len(events)
             /\ AddedEvents = <<AdvanceEvent>>
       /\ (pc = "unit" /\ call'.op = "capture_missing_node") =>
             /\ KeptEvents = 1..Len(events)
             /\ AddedEvents = <<OpenEvent(Error(ParserError(MISSING_TITLE))),
                                MissingEvent, CloseEvent>>
       /\ (pc = "unit" /\ call'.op = "close") =>
             LET m == marks[Len(marks)] + 1
             IN  /\ 1..Len(events) \ {m} \subseteq KeptEvents
                 /\ events[m].e = "Open"
                 /\ events'[m].e = "Open"
                 /\ events'[m].kind \in {ChangelogFile, Title}
                 /\ AddedEvents = <<CloseEvent>>]_vars

\* C24: close has written the kind Title over an Open event that has an
\* Advance event behind it
C24_Witness ==
    /\ pc = "unit"
    /\ call.op = "close"
    /\ \E k \in 1..(Len(events) - 2) :
          /\ events[k] = OpenEvent(Title)
          /\ events[k + 1] = AdvanceEvent
          /\ events[Len(events)] = CloseEvent

(***************************************************************************)
(* Properties of the shape of the tree (Spec).                             *)
(***************************************************************************)
\* the Error subtrees of the tree
ErrorSubtrees == {t \in Subtrees : t.kind.k = "Error"}

\* the Error subtrees have one leaf each, and there is a diagnostic at it
ErrorsHaveOneLeaf ==
    \A t \in ErrorSubtrees :
        /\ Len(t.children) = 1
        /\ t.children[1].c \in {"Markdown", "Dummy"}
        /\ position(t) =
              IF t.children[1].c = "Markdown"
              THEN NodePosition(t.children[1].index)
              ELSE t.children[1].position
        /\ \E i \in 1..Len(diagnostics) :
              diagnostics[i] = Diagnostic(t.kind.message, position(t))

\* C25: an Error subtree of the tree that parse returns has exactly one
\* child, the Markdown node consumed for the error or a Dummy position,
\* never a Tree; the position of the subtree is the position of that child
\* and get_diagnostics reports the message of the subtree at it.
C25_ErrorHasOneLeaf == Done => ErrorsHaveOneLeaf

\* C25: the tree has an Error subtree around a node behind the first and
\* an Error subtree around a Dummy position
C25_Witness ==
    /\ Done
    /\ \E t \in ErrorSubtrees :
          t.children[1].c = "Markdown" /\ t.children[1].index > 1
    /\ \E t \in ErrorSubtrees : t.children[1].c = "Dummy"

\* the kinds of the children of the root, in order
RootKinds == [i \in 1..Len(tree.children) |-> tree.children[i].tree.kind.k]

\* the Unreleased subtrees of the tree, as their places in tree_iter
UnreleasedSubtrees ==
    {i \in 1..Len(tree_iter(tree)) : tree_iter(tree)[i].kind = Unreleased}

\* the children of the root are the four sections and then releases,
\* links and errors; there is one Unreleased subtree at most
RootShape ==
    /\ tree.kind = ChangelogFile
    /\ Len(tree.children) >= 4
    /\ \A i \in 1..Len(tree.children) : tree.children[i].c = "Tree"
    /\ RootKinds[1] \in {"Title", "Error"}
    /\ RootKinds[2] \in {"NotableChanges", "Error"}
    /\ RootKinds[3] \in {"AboutFormat", "Error"}
    /\ RootKinds[4] \in {"Unreleased", "Error"}
    /\ \A i \in 5..Len(tree.children) :
          RootKinds[i] \in {"Release", "ReleaseLink", "Error"}
    /\ Cardinality(UnreleasedSubtrees) <= 1
    /\ UnreleasedSubtrees # {} => tree.children[4].tree.kind = Unreleased
    /\ diagnostics = <<>> => Cardinality(UnreleasedSubtrees) = 1

\* C26: the root of the tree that parse returns is a ChangelogFile whose
\* children are subtrees: a Title or Error, a NotableChanges or Error, an
\* AboutFormat or Error, an Unreleased or Error, and then Release,
\* ReleaseLink and Error subtrees.  The tree has at most one Unreleased
\* subtree, the fourth child of the root, and has it if get_diagnostics
\* returns no diagnostic.
C26_RootShape == Done => RootShape

\* C26: a tree without diagnostics has a Release and a ReleaseLink behind
\* its Unreleased subtree
C26_Witness ==
    /\ Done
    /\ diagnostics = <<>>
    /\ Len(tree.children) >= 6
    /\ \E i, j \in 5..Len(tree.children) :
          RootKinds[i] = "Release" /\ RootKinds[j] = "ReleaseLink"

\* the ChangeGroup subtrees of the tree
ChangeGroupSubtrees == {t \in Subtrees : t.kind = ChangeGroup}

\* the node that the first child of a ChangeGroup subtree wraps
GroupHeading(t) == t.children[1].tree.children[1].index

\* the ChangeGroup subtrees hold a heading and a list or a missing list
ChangeGroupShape ==
    \A t \in ChangeGroupSubtrees :
        /\ Len(t.children) = 2
        /\ t.children[1].c = "Tree" /\ t.children[2].c = "Tree"
        /\ LET header == t.children[1].tree
               list == t.children[2].tree
           IN  /\ header.kind.k \in {"ChangeGroupHeader", "Error"}
               /\ Len(header.children) = 1
               /\ header.children[1].c = "Markdown"
               /\ IsH3(nodes[GroupHeading(t)])
               /\ header.kind.k = "ChangeGroupHeader" <=>
                     ChangeGroup_from_str(nodes[GroupHeading(t)].text).ok
               /\ IF GroupHeading(t) < Len(nodes)
                     /\ IsList(nodes[GroupHeading(t) + 1])
                  THEN /\ list.kind = ChangeGroupList
                       /\ list.children = <<Markdown(GroupHeading(t) + 1)>>
                  ELSE /\ list.kind = Error(ParserError(MISSING_LIST))
                       /\ Len(list.children) = 1
                       /\ list.children[1].c = "Dummy"
                       /\ LeafPositions(t.children) =
                             <<NodePosition(GroupHeading(t)),
                               list.children[1].position>>

\* C27: a ChangeGroup subtree has two children.  The first wraps the
\* depth-3 heading that was consumed: a ChangeGroupHeader if the heading
\* names a change group, else an Error.  The second is a ChangeGroupList
\* that wraps the node behind the heading if that node is a list; if it is
\* not a list, or the input ends at the heading, the second is an Error
\* 'Change Group is missing the required list of changes' around a Dummy,
\* and the subtree holds no node but the heading.
C27_ChangeGroupShape == Done => ChangeGroupShape

\* C27: the tree has a ChangeGroup of an Error and a ChangeGroupList, and
\* a ChangeGroup of a ChangeGroupHeader at the end of the input without a
\* list
C27_Witness ==
    /\ Done
    /\ \E t \in ChangeGroupSubtrees :
          /\ t.children[1].tree.kind.k = "Error"
          /\ t.children[2].tree.kind = ChangeGroupList
    /\ \E t \in ChangeGroupSubtrees :
          /\ t.children[1].tree.kind.k = "ChangeGroupHeader"
          /\ t.children[2].tree.kind.k = "Error"
          /\ GroupHeading(t) = Len(nodes)

\* the nodes that a subtree holds, as their indexes, in depth-first order
NodesOf(t) ==
    LET leaves == SelectSeq(child_iter(t), LAMBDA child : child.c = "Markdown")
    IN  [k \in 1..Len(leaves) |-> leaves[k].index]

\* the Unreleased and Release subtrees of the root
BlockSubtrees ==
    {tree.children[i].tree : i \in {j \in 1..Len(tree.children) :
        tree.children[j].tree.kind \in {Unreleased, Release}}}

\* the first depth-2 heading or link definition behind the h-th node, or
\* the end of the document
BlockEnd(h) ==
    LET ends == {i \in (h + 1)..Len(nodes) :
                     IsH2(nodes[i]) \/ IsDefinition(nodes[i])}
    IN  IF ends = {} THEN Len(nodes) + 1
        ELSE CHOOSE i \in ends : \A j \in ends : i <= j

\* a depth-3 heading or list that no block takes: no depth-2 heading stands
\* before it, or a link definition stands between that heading and it
Blockless(n) ==
    /\ IsH3(nodes[n]) \/ IsList(nodes[n])
    /\ \/ HeadingAbove(n) = 0
       \/ \E d \in (HeadingAbove(n) + 1)..(n - 1) : IsDefinition(nodes[d])

\* the blocks end at depth-2 headings and link definitions
BlockEnds ==
    /\ \A b \in BlockSubtrees :
          LET held == NodesOf(b)
          IN  /\ held # <<>>
              /\ IsH2(nodes[held[1]])
              /\ held = [k \in 1..(BlockEnd(held[1]) - held[1]) |->
                             held[1] + k - 1]
    /\ \A t \in ChangeGroupSubtrees :
          \E b \in BlockSubtrees :
              /\ \E j \in 1..Len(b.children) : b.children[j] = TreeChild(t)
              /\ NodesOf(b)[1] = HeadingAbove(GroupHeading(t))
    /\ \A n \in 1..Len(nodes) :
          Blockless(n) =>
              /\ \E i \in 1..Len(tree.children) :
                    /\ tree.children[i].tree.kind.k = "Error"
                    /\ tree.children[i].tree.children = <<Markdown(n)>>
              /\ \A t \in ChangeGroupSubtrees :
                    \A k \in 1..Len(NodesOf(t)) : NodesOf(t)[k] # n

\* C28: an Unreleased or Release block holds the nodes from its depth-2
\* heading up to, and without, the first depth-2 heading or link
\* definition behind it.  A ChangeGroup subtree is a child of the block of
\* the nearest depth-2 heading before it, whether that heading is in a
\* header or in an Error.  A depth-3 heading or list behind a link
\* definition, or with no depth-2 heading before it, is in an Error child
\* of the root and in no ChangeGroup.
C28_BlockEnds == Done => BlockEnds

\* C28: the Unreleased block holds a ChangeGroup and ends at a link
\* definition, and the depth-3 heading behind the link is in an Error child
\* of the root
C28_Witness ==
    /\ Done
    /\ Len(nodes) = 7
    /\ IsH3(nodes[5]) /\ IsDefinition(nodes[6]) /\ IsH3(nodes[7])
    /\ tree.children[4].tree.kind = Unreleased
    /\ NodesOf(tree.children[4].tree) = <<4, 5>>
    /\ ChangeGroupSubtrees # {}
    /\ tree.children[Len(tree.children)].tree.children = <<Markdown(7)>>

(***************************************************************************)
(* Properties of the order of the diagnostics (Spec).                      *)
(***************************************************************************)
\* the phase of get_diagnostics that a message comes from: 3 the orphan
\* links, 2 the duplicate versions and links, 1 the walk of the tree
PhaseOf(message) ==
    CASE message = ORPHAN_LINK -> 3
      [] \E v \in Versions : message \in {DuplicateVersionMessage(v),
                                           DuplicateLinkMessage(v)} -> 2
      [] OTHER -> 1

\* the diagnostics of the subtrees in depth-first pre-order: of a subtree,
\* the diagnostic of the Error or the diagnostics of the change groups of
\* the block, then the diagnostics of the subtrees inside it
RECURSIVE PreOrderDiagnostics(_)
PreOrderDiagnostics(children) ==
    IF children = <<>> THEN <<>>
    ELSE LET child == Head(children)
             here ==
                 CASE child.c # "Tree" -> <<>>
                   [] child.c = "Tree" /\ child.tree.kind.k = "Error" ->
                        <<Diagnostic(child.tree.kind.message,
                                     position(child.tree))>>
                   [] child.c = "Tree"
                      /\ child.tree.kind \in {Release, Unreleased} ->
                        validate_change_groups(child.tree, <<>>)
                   [] OTHER -> <<>>
             inside == IF child.c = "Tree"
                       THEN PreOrderDiagnostics(child.tree.children)
                       ELSE <<>>
         IN  here \o inside \o PreOrderDiagnostics(Tail(children))

\* the diagnostics come in the three phases of get_diagnostics
DiagnosticPhases ==
    LET phase == [i \in 1..Len(diagnostics) |->
                     PhaseOf(diagnostics[i].message)]
    IN  /\ \A i, j \in 1..Len(diagnostics) :
              i < j => phase[i] <= phase[j]
        /\ SelectSeq(diagnostics, LAMBDA d : PhaseOf(d.message) = 1)
              = PreOrderDiagnostics(tree.children)
        /\ \A i, j \in 1..Len(diagnostics) :
              (i < j /\ phase[i] = phase[j] /\ phase[i] \in {2, 3}) =>
                  diagnostics[i].position.start.offset
                      < diagnostics[j].position.start.offset
        /\ Len(diagnostics) >=
              Cardinality({i \in 1..Len(tree_iter(tree)) :
                               tree_iter(tree)[i].kind.k = "Error"})

\* C29: get_diagnostics returns the diagnostics of the Error subtrees and
\* of the change groups, in depth-first pre-order of the tree with the
\* diagnostics of a block before those of the Error subtrees in it, then
\* the duplicate release versions and duplicate release links in the order
\* of the document, then the orphan links in the order of the document;
\* there are at least as many diagnostics as Error subtrees.
C29_DiagnosticPhases == Done => DiagnosticPhases

\* C29: the diagnostics are those of a release without change groups, of
\* the Error of its heading, of a duplicate link and of an orphan link
C29_Witness ==
    /\ Done
    /\ Len(diagnostics) = 4
    /\ diagnostics[1].message = NO_CHANGE_GROUPS
    /\ PhaseOf(diagnostics[2].message) = 1
    /\ diagnostics[2].position.start = diagnostics[1].position.start
    /\ PhaseOf(diagnostics[3].message) = 2
    /\ PhaseOf(diagnostics[4].message) = 3

(***************************************************************************)
(* Properties of sequences of calls on a Changelog (ApiSpec).              *)
(***************************************************************************)
\* the versions of the releases are pairwise distinct
DistinctVersions(releases) ==
    \A i, j \in 1..Len(releases) :
        releases[i].version = releases[j].version => i = j

\* C30: in any sequence of add and promote_unreleased calls on a changelog
\* the versions of the releases stay pairwise distinct.  A promote that
\* succeeds puts one new release before the releases there were, which stay
\* as they were and in their order, so the promoted releases stand before
\* the releases of the start, the one promoted last first; an add and a
\* promote that fails leave the releases as they were.
C30_ReleasesOnlyGrowInFront ==
    /\ []DistinctVersions(changelog.releases)
    /\ [][/\ (Promoted /\ call'.result.ok) =>
                /\ Len(changelog'.releases) = Len(changelog.releases) + 1
                /\ changelog'.releases[1].version = call'.promote_options.version
                /\ \A i \in 1..Len(changelog.releases) :
                      changelog'.releases[i + 1] = changelog.releases[i]
          /\ (Promoted /\ ~call'.result.ok) =>
                changelog'.releases = changelog.releases
          /\ Promoted =>
                call'.result.ok = ~IsReleased(call'.promote_options.version)
          /\ ~Promoted => changelog'.releases = changelog.releases
          /\ (call'.op = "add" /\ calls' = calls + 1) =>
                /\ changelog'.releases = changelog.releases
                /\ changelog'.unreleased.changes # changelog.unreleased.changes
         ]_vars

\* C30: two versions have been promoted on a changelog with a release of
\* another version; the release promoted last is the first, the release of
\* the start the last
C30_Witness ==
    /\ call.op = "promote_unreleased"
    /\ call.result.ok
    /\ Len(changelog.releases) = 3
    /\ changelog.releases[1].version = call.promote_options.version
    /\ changelog.releases[2].version \in SampleVersions
    /\ changelog.releases[3].version \notin SampleVersions
====
